---------------------------- MODULE Spec2Model ----------------------------
(***************************************************************************)
(* A model of jm_bot: the OneBot WebSocket client (onebot_ws.py) and the   *)
(* command router and job pipeline built on it (main.py).                  *)
(*                                                                         *)
(* The program runs on one asyncio event loop.  A coroutine runs without   *)
(* interruption until it awaits something that is not ready, so one action *)
(* of the model is one such uninterrupted segment of a task: from the      *)
(* resumption of the task to its next suspension (or its end).  Awaiting   *)
(* an uncontended asyncio.Lock does not suspend; none of the locks of      *)
(* main.py is held across a suspension, so none is ever contended.         *)
(*                                                                         *)
(* Time is the wall clock in whole seconds (time.time()).                  *)
(***************************************************************************)
EXTENDS Integers, Sequences, FiniteSets, TLC

(***************************************************************************)
(* Bounds of the model.                                                    *)
(***************************************************************************)
NumGroups == 2        \* group ids are 1..NumGroups
MaxTasks == 2         \* event-handler tasks alive at the same time
MaxTime == 2          \* the clock runs from 0 to MaxTime
NumAdmins == 1        \* cfg.bot.admins is <<1, .., NumAdmins>>
NumAlbums == 1        \* album ids are 1..NumAlbums
CooldownSeconds == 2  \* the positive value of per_group_cooldown_seconds
MaxCallers == 2       \* call_api invocations alive at the same time
MaxEcho == 2          \* correlation ids issued in one run

Groups == 1..NumGroups
Tasks == 1..MaxTasks
Albums == 1..NumAlbums
Admins == 1..NumAdmins
Users == 0..NumAdmins          \* user 0 is not an administrator
Times == 0..MaxTime
Callers == 1..MaxCallers

VARIABLES
    cfg,                     \* AppConfig.bot: the cooldown settings; the jm yaml file
    ws,                      \* OneBotWSClient._ws: "none", or the connection, which
                             \* is "open" or "closed"
    rf,                      \* where run_forever is
    ob,                      \* AppConfig.onebot: reconnect_interval
    delay,                   \* run_forever: the seconds of its last reconnect wait
    dial,                    \* run_forever: its locals url (the access_token
                             \* parameter of the query) and headers
                             \* (Authorization), and whether websockets.connect
                             \* has been called with them
    lostSeq,                 \* history: _echo_seq when the finally block of
                             \* run_forever last ran
    _pending,                \* OneBotWSClient._pending: the echoes that are keys
    futures,                 \* the future made for each echo (_pending's values)
    _echo_seq,               \* OneBotWSClient._echo_seq
    calls,                   \* the call_api invocations
    frame,                   \* _receiver_loop: the frame it has just parsed
    now,                     \* time.time()
    GROUP_ENABLED,           \* main.GROUP_ENABLED: dict gid -> bool
    GROUP_BUSY,              \* main.GROUP_BUSY: the keys of the dict (values are True)
    GROUP_COOLDOWN_NEXT_TS,  \* main.GROUP_COOLDOWN_NEXT_TS: dict gid -> ts
    stateFile,               \* STATE_FILE: whether it exists, and its dict str -> bool
    STATE_LOCK,              \* main.STATE_LOCK: "unlocked" or "locked"
    located,                 \* a call of _find_album_dir_in_work: the listing of
                             \* the work directory, the album id, the result
    fs,                      \* the work directories that exist under WORK_ROOT
    PROCESS_POOL,            \* the executor's work queue; its head is running
    tasks,                   \* the on_event tasks created by wrapper()
    ready,                   \* the tasks that have not run yet, as the event loop
                             \* will start them (in the order of their creation),
                             \* each with the suspended tasks that were woken
                             \* before it was created and run before it
    jobDoneAt                \* history: gid -> time the group's last job exited
                             \* (kept when a cooldown is configured)

connVars == <<ws, rf, ob, delay, dial, lostSeq>>

callVars == <<_pending, futures, _echo_seq, calls, frame>>

botVars == <<cfg, now, GROUP_ENABLED, GROUP_BUSY, GROUP_COOLDOWN_NEXT_TS,
             stateFile, STATE_LOCK, located, fs, PROCESS_POOL, tasks, ready, jobDoneAt>>

vars == <<connVars, callVars, botVars>>

(***************************************************************************)
(* Dictionaries are functions whose domain is the set of keys.             *)
(***************************************************************************)
EmptyDict == [k \in {} |-> FALSE]

DictSet(d, k, v) == [x \in DOMAIN d \cup {k} |-> IF x = k THEN v ELSE d[x]]

DictGet(d, k, default) == IF k \in DOMAIN d THEN d[k] ELSE default

(***************************************************************************)
(* str(k) and int(s) for the keys of the state file.                       *)
(***************************************************************************)
Digit(n) == CASE n = 0 -> "0" [] n = 1 -> "1" [] n = 2 -> "2" [] n = 3 -> "3"
              [] n = 4 -> "4" [] n = 5 -> "5" [] n = 6 -> "6" [] n = 7 -> "7"
              [] n = 8 -> "8" [] OTHER -> "9"

RECURSIVE IntToStr(_)
IntToStr(n) == IF n < 10 THEN <<Digit(n)>>
               ELSE Append(IntToStr(n \div 10), Digit(n % 10))

DigitVal(c) == CHOOSE n \in 0..9 : Digit(n) = c

RECURSIVE StrToInt(_)
StrToInt(s) == IF Len(s) = 1 THEN DigitVal(s[1])
               ELSE 10 * StrToInt(SubSeq(s, 1, Len(s) - 1)) + DigitVal(s[Len(s)])

(***************************************************************************)
(* The configurations: per_group_cooldown_enabled, per_group_cooldown_seconds. *)
(***************************************************************************)
CooldownChoices ==
    { <<TRUE, CooldownSeconds>>, <<FALSE, CooldownSeconds>>, <<TRUE, 0>>, <<TRUE, -1>> }

\* jm_yaml_readable: whether jm_bot/jm_pdf/config.yml, which _prepare_temp_yaml
\* reads for every job, can be read and parsed.
CfgChoices ==
    { [per_group_cooldown_enabled |-> c[1], per_group_cooldown_seconds |-> c[2],
       jm_yaml_readable |-> y] : c \in CooldownChoices, y \in BOOLEAN }

(***************************************************************************)
(* Push-events, by what on_event makes of post_type, message_type,         *)
(* group_id and the text.                                                  *)
(***************************************************************************)
NoEvt == [cmd |-> "none", gid |-> 0, user |-> 0, album |-> 0, rest |-> ""]

Events ==
    { [cmd |-> c, gid |-> g, user |-> u, album |-> 0, rest |-> ""] :
          c \in {"enable", "disable"}, g \in Groups, u \in Users }
    \cup { [cmd |-> c, gid |-> g, user |-> u, album |-> 0, rest |-> r] :
          c \in {"near_enable", "near_disable"}, g \in Groups, u \in Users,
          r \in {"text", "help"} }
    \cup { [cmd |-> c, gid |-> g, user |-> u, album |-> a, rest |-> "jm"] :
          c \in {"near_enable", "near_disable"}, g \in Groups, u \in Users,
          a \in Albums }
    \cup { [cmd |-> "jm", gid |-> g, user |-> 0, album |-> a, rest |-> ""] :
          g \in Groups, a \in Albums }
    \cup { [cmd |-> c, gid |-> g, user |-> 0, album |-> 0, rest |-> ""] :
          c \in {"help", "other", "private"}, g \in Groups }
    \cup { [cmd |-> "notice", gid |-> 0, user |-> 0, album |-> 0, rest |-> ""] }
    \cup { [cmd |-> c, gid |-> g, user |-> u, album |-> 0, rest |-> r] :
          c \in {"notice", "private"}, g \in Groups, u \in Users,
          r \in {"enable", "help"} }
    \cup { [cmd |-> c, gid |-> g, user |-> u, album |-> a, rest |-> "jm"] :
          c \in {"notice", "private"}, g \in Groups, u \in Users, a \in Albums }
    \cup { [cmd |-> "nogroup", gid |-> 0, user |-> u, album |-> 0, rest |-> r] :
          u \in Users, r \in {"enable", "help"} }
    \cup { [cmd |-> "nogroup", gid |-> 0, user |-> u, album |-> a, rest |-> "jm"] :
          u \in Users, a \in Albums }

\* The events that start jobs or switch a group on.
JobEvents ==
    { e \in Events : \/ e.cmd = "jm"
                     \/ e.cmd = "enable" /\ e.user = 1 }

\* The events of one group that start its jobs or switch it on and off.
SwitchEvents ==
    { e \in Events : /\ e.gid = 1
                     /\ \/ e.cmd = "jm"
                        \/ e.cmd \in {"enable", "disable"} /\ e.user = 1 }

\* The events of the switches and of what shows them: help.
StoreEvents ==
    { e \in Events : e.cmd \in {"enable", "disable", "help", "near_enable"}
                     /\ e.rest \in {"", "text"} }

\* The events of the commands and of the texts that start with the enable or
\* the disable command and go on: with any text, with the help command, with
\* a jm command.
RouteEvents ==
    { e \in Events : \/ e.cmd \in {"near_enable", "near_disable", "help", "jm"}
                     \/ e.cmd \in {"enable", "disable"} /\ e.user = 1 }

\* The events that on_event drops before it reads their text: cmd is
\* "notice" for a post_type other than "message", "private" for a
\* message_type other than "group", "nogroup" for a group message without a
\* group_id; rest is the command that their text is.  The sender is an
\* administrator.
FilterEvents ==
    { e \in Events : \/ e.cmd \in {"notice", "private", "nogroup"}
                        /\ e.rest # "" /\ e.user = 1
                     \/ e.cmd \in {"jm", "help"}
                     \/ e.cmd = "enable" /\ e.user = 1 }

\* Mutation of Command: the text is read before post_type, message_type and
\* group_id are looked at.
Command_text_first(evt) ==
    CASE evt.cmd \in {"notice", "private", "nogroup"} ->
            (IF evt.rest \in {"enable", "help", "jm"} THEN evt.rest ELSE "ignored")
      [] evt.cmd \in {"other", "near_enable", "near_disable"} -> "ignored"
      [] OTHER -> evt.cmd

\* Mutation of Command: the help and jm patterns are searched in the text
\* before the near matches of the switches are dropped.
Command_search_first(evt) ==
    CASE evt.cmd \in {"notice", "private", "nogroup", "other"} -> "ignored"
      [] evt.cmd \in {"near_enable", "near_disable"} ->
            (IF evt.rest \in {"help", "jm"} THEN evt.rest ELSE "ignored")
      [] OTHER -> evt.cmd

\* What on_event makes of an event, by the order of its tests: the filters
\* on post_type, message_type and group_id; the text that is the enable
\* command, then the text that starts with it (return); the same for the
\* disable command; then CMD_HELP.search and CMD_JM.search in the text.
Command(evt) ==
    CASE evt.cmd \in {"notice", "private", "nogroup", "other"} -> "ignored"
      [] evt.cmd \in {"near_enable", "near_disable"} -> "ignored"
      [] OTHER -> evt.cmd

\* The jm commands.
JmEvents == { e \in Events : e.cmd = "jm" }

NoDir == <<>>

Free == [pc |-> "free", evt |-> NoEvt, msg |-> "", fut |-> "none",
         work_dir |-> NoDir, pdf |-> "none", ok |-> FALSE, exc |-> FALSE,
         reason |-> "", adm |-> 0, rival |-> FALSE,
         notices |-> 0, undelivered |-> FALSE]

JobPcs == {"ack", "login", "acquire", "transform", "upload", "fallback",
           "stats", "done_notice", "fail_notice", "notify_send", "notify_sleep"}

InJob(t) == tasks[t].pc \in JobPcs

(***************************************************************************)
(* _find_album_dir_in_work.  A name is a sequence of characters; an entry  *)
(* of the work directory is a file or a directory; a directory has loose   *)
(* image files and, when chapters is not -1, numeric subdirectories with   *)
(* that many image files in all.  The listing is the order of iterdir().   *)
(***************************************************************************)
MaxEntries == 3
MaxImages == 2

AlbumId == <<"7">>
Names == {<<"7">>, <<"x", "7">>, <<"x">>, <<"y">>}

Entries ==
    { [name |-> n, dir |-> FALSE, chapters |-> -1, loose |-> 0] : n \in Names }
    \cup { [name |-> n, dir |-> TRUE, chapters |-> c, loose |-> l] :
             n \in Names, c \in {-1, 0, MaxImages}, l \in {0, 1} }

Listings ==
    { w \in UNION { [1..k -> Entries] : k \in 0..MaxEntries } :
         \A i, j \in 1..Len(w) : i # j => w[i].name # w[j].name }

\* album_id in p.name
Contains(name, id) ==
    \E i \in 1..(Len(name) - Len(id) + 1) : SubSeq(name, i, i + Len(id) - 1) = id

\* count_images: the images of the numeric subdirectories, or of the
\* directory itself when it has none.
count_images(e) == IF e.chapters # -1 THEN e.chapters ELSE e.loose

\* candidates = [p for p in base.iterdir() if p.is_dir()]
Candidates(work) == SelectSeq(work, LAMBDA e : e.dir)

\* The first element of a sequence that is in the set S.
First(seq, S) ==
    seq[CHOOSE i \in 1..Len(seq) :
            seq[i] \in S /\ \A j \in 1..(i - 1) : seq[j] \notin S]

None == <<>>

\* Mutation of _find_album_dir_in_work: without a name that matches, the
\* first subdirectory is taken.
_find_album_dir_in_work_first(work, album_id) ==
    LET candidates == Candidates(work)
        Named == {e \in Entries : Contains(e.name, album_id)}
    IN  IF \E i \in 1..Len(candidates) : candidates[i].name = album_id
        THEN album_id
        ELSE IF \E i \in 1..Len(candidates) : candidates[i] \in Named
        THEN First(candidates, Named).name
        ELSE IF candidates # <<>> THEN candidates[1].name
        ELSE None

\* _find_album_dir_in_work: the name of the directory it returns, or None.
\* max() gives the first of the candidates with the greatest count.
_find_album_dir_in_work(work, album_id) ==
    LET candidates == Candidates(work)
        Named == {e \in Entries : Contains(e.name, album_id)}
        Best == {e \in Entries : \A j \in 1..Len(candidates) :
                                    count_images(candidates[j]) <= count_images(e)}
    IN  IF \E i \in 1..Len(candidates) : candidates[i].name = album_id
        THEN album_id
        ELSE IF \E i \in 1..Len(candidates) : candidates[i] \in Named
        THEN First(candidates, Named).name
        ELSE IF candidates # <<>> THEN First(candidates, Best).name
        ELSE None

NoLocate == [work |-> <<>>, album_id |-> AlbumId, album_dir |-> None, done |-> FALSE]

(***************************************************************************)
(* The state store.                                                        *)
(***************************************************************************)
\* Mutation of is_group_enabled: a group never switched counts as enabled.
is_group_enabled_default_on(group_id) == DictGet(GROUP_ENABLED, group_id, TRUE)

\* is_group_enabled: GROUP_ENABLED.get(int(group_id), False)
is_group_enabled(group_id) == DictGet(GROUP_ENABLED, group_id, FALSE)

\* Mutation of DumpGroupState: only the groups that are on are written.
DumpGroupState_on_only(d) ==
    [s \in {IntToStr(k) : k \in {g \in DOMAIN d : d[g]}} |-> TRUE]

\* json.dumps({str(k): bool(v) for k, v in GROUP_ENABLED.items()})
DumpGroupState(d) ==
    [s \in {IntToStr(k) : k \in DOMAIN d} |-> d[StrToInt(s)]]

\* Mutation of _save_group_state: the file gets the map as it was before
\* the switch that is being saved.
_save_group_state_older(enabledMap, written) ==
    IF written THEN [exists |-> TRUE, data |-> DumpGroupState(GROUP_ENABLED)]
    ELSE stateFile

\* _save_group_state: the file is replaced by the dump of the whole dict, or,
\* when writing raises, left as it was (the error is logged).
_save_group_state(enabledMap, written) ==
    IF written THEN [exists |-> TRUE, data |-> DumpGroupState(enabledMap)]
    ELSE stateFile

\* Mutation of Released: the lock stays held when the write raised.
Released_on_success(written) == IF written THEN "unlocked" ELSE "locked"

\* "async with STATE_LOCK": the lock once the block is left, by its end or by
\* the exception of a write that failed.
Released(written) == "unlocked"

\* set_group_enabled: GROUP_ENABLED[int(group_id)] = bool(enabled), then save.
\* Nothing is awaited while the lock is held, so that the save of a handler
\* finds the lock as the save before it left it; a lock left held would
\* suspend the save, and the file would stay as it is.
set_group_enabled(group_id, enabled, written) ==
    /\ GROUP_ENABLED' = DictSet(GROUP_ENABLED, group_id, enabled)
    /\ IF STATE_LOCK = "unlocked"
       THEN /\ stateFile' = _save_group_state(GROUP_ENABLED', written)
            /\ STATE_LOCK' = Released(written)
       ELSE UNCHANGED <<stateFile, STATE_LOCK>>

\* Mutation of _is_admin: every user counts as an administrator.
_is_admin_anyone(user_id) == TRUE

\* _is_admin: int(user_id) in cfg.bot.admins
_is_admin(user_id) == user_id \in Admins

(***************************************************************************)
(* The per-group cooldown.                                                 *)
(***************************************************************************)
CooldownConfigured ==
    cfg.per_group_cooldown_enabled /\ cfg.per_group_cooldown_seconds > 0

\* _check_group_cooldown: TRUE when the command is allowed.
_check_group_cooldown(group_id) ==
    IF ~cfg.per_group_cooldown_enabled \/ cfg.per_group_cooldown_seconds <= 0
    THEN TRUE
    ELSE ~(now < DictGet(GROUP_COOLDOWN_NEXT_TS, group_id, 0))

\* Mutation of _start_group_cooldown: the entry is the time of the finish,
\* the seconds are not added.
_start_group_cooldown_no_seconds(group_id) ==
    IF ~cfg.per_group_cooldown_enabled \/ cfg.per_group_cooldown_seconds <= 0
    THEN GROUP_COOLDOWN_NEXT_TS
    ELSE DictSet(GROUP_COOLDOWN_NEXT_TS, group_id, now)

\* Mutation of _start_group_cooldown: the entry is never written.
_start_group_cooldown_never(group_id) == GROUP_COOLDOWN_NEXT_TS

\* Mutation of _start_group_cooldown: the entry is written whatever the
\* configuration says.
_start_group_cooldown_always(group_id) ==
    DictSet(GROUP_COOLDOWN_NEXT_TS, group_id, now + cfg.per_group_cooldown_seconds)

\* _start_group_cooldown: the dict after the call.
_start_group_cooldown(group_id) ==
    IF ~cfg.per_group_cooldown_enabled \/ cfg.per_group_cooldown_seconds <= 0
    THEN GROUP_COOLDOWN_NEXT_TS
    ELSE DictSet(GROUP_COOLDOWN_NEXT_TS, group_id,
                 now + cfg.per_group_cooldown_seconds)

(***************************************************************************)
(* call_api as the pipeline sees it.  A call made while _ws is None, or    *)
(* on a connection that is closed, raises; otherwise the caller is         *)
(* suspended on its future until a response arrives, the timeout elapses,  *)
(* or run_forever fails the future with "connection lost".                 *)
(***************************************************************************)
NewFuture == IF ws = "open" THEN "wait" ELSE "notconn"

\* Mutation of CallOutcomes: a call whose connection went away never ends.
CallOutcomes_hang(fut) ==
    IF fut = "wait" /\ rf = "connected" THEN {"ok", "failed", "raise"} ELSE {}

\* What the awaited call gives: a response with status ok, a response that
\* is not ok, or an exception.  A future whose result the receive loop has
\* set ("result") gives that response.
CallOutcomes(fut) ==
    IF fut = "result" THEN {"ok", "failed"}
    ELSE IF fut = "wait" /\ rf = "connected" THEN {"ok", "failed", "raise"} ELSE {"raise"}

\* The task suspended in a call_api made for `msg`.
Calling(rec, pc, msg) ==
    [rec EXCEPT !.pc = pc, !.msg = msg, !.fut = NewFuture, !.rival = FALSE]

\* The text of the stats message: the PDF field.
StatsMessage(pdf) == IF pdf = "none" THEN "stats:(not generated)" ELSE "stats:pdf"

\* send "failed" to the group; the report to the administrators follows.
FailNotice(rec, reason, exc) ==
    [Calling(rec, "fail_notice", "fail") EXCEPT !.reason = reason, !.exc = exc,
                                                !.notices = rec.notices + 1]

\* _safe_rmtree(path)
_safe_rmtree(path) == IF path = NoDir THEN fs ELSE fs \ {path}

\* The end of the job: handle_jm_command returns (after _safe_rmtree) or has
\* raised (exc), and the finally block of on_event runs.
JobExit(t) ==
    LET rec == tasks[t]
        gid == rec.evt.gid
    IN  /\ fs' = IF rec.exc THEN fs ELSE _safe_rmtree(rec.work_dir)
        /\ GROUP_BUSY' = GROUP_BUSY \ {gid}
        /\ GROUP_COOLDOWN_NEXT_TS' = _start_group_cooldown(gid)
        /\ jobDoneAt' = IF CooldownConfigured THEN DictSet(jobDoneAt, gid, now)
                        ELSE jobDoneAt
        /\ tasks' = [tasks EXCEPT ![t] = Free]

(***************************************************************************)
(* The call_api invocations of the correlation table.                      *)
(***************************************************************************)
\* A frame as _receiver_loop sees it.  echo 0 stands for a frame without
\* echo or with one that was never issued; echo n for "jm-bot-n".  seq is the
\* parity of the number of frames received.
NoFrame == [kind |-> "none", echo |-> 0, seq |-> 0, at |-> 0]

Frames == { [kind |-> "response", echo |-> e] : e \in 0..MaxEcho }
          \cup { [kind |-> k, echo |-> 0] : k \in {"unknown", "nonjson", "number", "array"} }

\* A call_api invocation.  pc: "idle", "sending" (in ws.send), "waiting" (in
\* wait_for), "done"; res: how the call ended; closed: the connection it
\* sends on is closed; atLoss: history, its future was pending when the
\* connection was lost.  A future is "none" (not made, or dropped), "pending",
\* "result", "exception" or "cancelled".
Idle == [pc |-> "idle", echo |-> 0, res |-> "", closed |-> FALSE, atLoss |-> FALSE]

(***************************************************************************)
(* Init: the state after _main_async has built the client, as run_forever  *)
(* starts: no state file yet, nothing enabled, the work root emptied, no   *)
(* connection.                                                             *)
(***************************************************************************)
\* OneBotConfig.reconnect_interval when the configuration does not give it.
DefaultReconnect == 3

\* The reconnect intervals a configuration can give: none or zero, one second,
\* the default.
\* OneBotConfig as load_config makes it when the file gives no token.  A
\* string is the sequence of its characters.
DefaultOb == [reconnect_interval |-> DefaultReconnect,
              access_token |-> <<>>, use_query_token |-> FALSE]

ObChoices == { [DefaultOb EXCEPT !.reconnect_interval = n] : n \in {0, 1, DefaultReconnect} }

\* The configurations of the credential: no token, blanks only, a token,
\* a token with a blank before it; by header or by query parameter.
AuthChoices ==
    { [DefaultOb EXCEPT !.access_token = a, !.use_query_token = q] :
          a \in {<<>>, <<" ">>, <<"t">>, <<" ", "t">>}, q \in BOOLEAN }

\* str.strip()
RECURSIVE strip(_)
strip(str) ==
    IF str = <<>> THEN str
    ELSE IF Head(str) = " " THEN strip(Tail(str))
    ELSE IF str[Len(str)] = " " THEN strip(SubSeq(str, 1, Len(str) - 1))
    ELSE str

\* build_ws_connect_params: (url, headers), the url by the value of its
\* access_token parameter (ws_url has none), the headers by Authorization;
\* <<>> stands for a parameter or a header that is not there.
build_ws_connect_params(o) ==
    LET token == strip(o.access_token)
    IN  [access_token |-> IF token # <<>> /\ o.use_query_token THEN token ELSE <<>>,
         Authorization |-> IF token # <<>> /\ ~o.use_query_token
                           THEN <<"Bearer", " ">> \o token ELSE <<>>]

\* run_forever before each connect: a Bearer token of the headers is moved to
\* the access_token parameter of the url and the headers are emptied.
Normalize(p) ==
    IF Len(p.Authorization) >= 2 /\ SubSeq(p.Authorization, 1, 2) = <<"Bearer", " ">>
    THEN [access_token |-> SubSeq(p.Authorization, 3, Len(p.Authorization)),
          Authorization |-> <<>>]
    ELSE p

\* websockets.connect(url, open_timeout=..., ...): what the opening
\* handshake carries.  The headers are not among the arguments.
Handshake(p) == [access_token |-> p.access_token, Authorization |-> <<>>]

\* run_forever calls websockets.connect.
Dial ==
    dial' = [params |-> Normalize(dial.params), attempted |-> TRUE]

\* The state at start, the configuration apart.
Boot ==
    /\ ws = "none"
    /\ rf = "connecting"
    /\ delay = 0
    /\ lostSeq = 0
    /\ dial = [params |-> build_ws_connect_params(ob), attempted |-> FALSE]
    /\ _pending = {}
    /\ futures = [e \in 1..MaxEcho |-> "none"]
    /\ _echo_seq = 0
    /\ calls = [c \in Callers |-> Idle]
    /\ frame = NoFrame
    /\ now = 0
    /\ GROUP_ENABLED = EmptyDict
    /\ GROUP_BUSY = {}
    /\ GROUP_COOLDOWN_NEXT_TS = EmptyDict
    /\ stateFile = [exists |-> FALSE, data |-> EmptyDict]
    /\ STATE_LOCK = "unlocked"
    /\ located = NoLocate
    /\ fs = {}
    /\ PROCESS_POOL = <<>>
    /\ tasks = [t \in Tasks |-> Free]
    /\ ready = <<>>
    /\ jobDoneAt = EmptyDict

Init ==
    /\ cfg \in CfgChoices
    /\ ob = DefaultOb
    /\ Boot

Tick ==
    /\ now < MaxTime
    /\ now' = now + 1
    /\ UNCHANGED <<cfg, ready, connVars, callVars, GROUP_ENABLED, GROUP_BUSY, GROUP_COOLDOWN_NEXT_TS,
                   stateFile, STATE_LOCK, located, fs, PROCESS_POOL, tasks, jobDoneAt>>

\* History: a jm command is received while the job of its group is in
\* progress.
Rival(evt) ==
    /\ evt.cmd = "jm"
    /\ \E v \in Tasks : InJob(v) /\ tasks[v].evt.gid = evt.gid

\* Mutation of NextReady: the task created last is started first.
NextReady_newest == ready[Len(ready)].task

\* The task the event loop starts next: the callbacks of call_soon, which
\* create_task uses, run in the order in which they were registered.
NextReady == Head(ready).task

\* The task t starts to run.
Start(t) ==
    /\ tasks[t].pc = "start"
    /\ ready # <<>> /\ NextReady = t
    /\ ready' = [i \in 1..(Len(ready) - 1) |->
                   IF i < CHOOSE j \in 1..Len(ready) : ready[j].task = t
                   THEN ready[i] ELSE ready[i + 1]]

\* The tasks suspended in an await.
Suspended == {v \in Tasks : tasks[v].pc \notin {"free", "start"}}

\* The suspended tasks that can have been woken before a task is created
\* now: the callback that resumes them is in the queue of the event loop
\* already.  They include those woken before the tasks created earlier.
WokenSets ==
    {A \in SUBSET Suspended :
        \A i \in 1..Len(ready) : (ready[i].ahead \cap Suspended) \subseteq A}

\* A suspended task is resumed when the event loop reaches its callback: not
\* before the tasks created before it was woken have started.  A task whose
\* call raised at once (no connection) was not suspended at all.
CanRun(t) ==
    \/ tasks[t].fut = "notconn"
    \/ \A i \in 1..Len(ready) : t \in ready[i].ahead

\* The queue once t has been resumed.
Passed(t) == [i \in 1..Len(ready) |-> [ready[i] EXCEPT !.ahead = @ \ {t}]]

\* The task t is resumed.
Resumed(t) == CanRun(t) /\ ready' = Passed(t)

\* Mutation of ReceiverReady: the handler of an event is awaited in the
\* receive loop, which takes the next frame when no handler is suspended.
ReceiverReady_inline == ws = "open" /\ rf = "connected" /\ Suspended = {}

\* The receive loop is in "raw = await ws.recv()" of an open connection.
\* Nothing else is awaited in the loop: wrapper returns once it has created
\* the task of the event.
ReceiverReady == ws = "open" /\ rf = "connected"

\* _receiver_loop gets a push-event frame; _handle_event calls wrapper, which
\* creates the task that will run on_event(evt).
ReceiveEvent(evt) ==
    /\ ReceiverReady
    /\ \E t \in Tasks :
         /\ tasks[t].pc = "free"
         /\ \A u \in Tasks : u < t => tasks[u].pc # "free"
         /\ tasks' = [tasks EXCEPT ![t] = [Free EXCEPT !.pc = "start", !.evt = evt,
                                                       !.rival = Rival(evt)]]
         /\ \E A \in WokenSets : ready' = Append(ready, [task |-> t, ahead |-> A])
    /\ UNCHANGED <<cfg, connVars, callVars, now, GROUP_ENABLED, GROUP_BUSY, GROUP_COOLDOWN_NEXT_TS,
                   stateFile, STATE_LOCK, located, fs, PROCESS_POOL, jobDoneAt>>

\* _receiver_loop gets the response frame of the call the task t is
\* suspended in: the result of its future is set, and t will be resumed.
ReceiveResponse(t) ==
    /\ ReceiverReady
    /\ tasks[t].fut = "wait"
    /\ tasks' = [tasks EXCEPT ![t] = [@ EXCEPT !.fut = "result"]]
    /\ UNCHANGED <<cfg, connVars, callVars, now, GROUP_ENABLED, GROUP_BUSY, GROUP_COOLDOWN_NEXT_TS,
                   stateFile, STATE_LOCK, located, fs, PROCESS_POOL, ready, jobDoneAt>>

(***************************************************************************)
(* on_event from its start to its first suspension.                        *)
(***************************************************************************)
HandleIgnored(t) ==
    /\ Start(t)
    /\ Command(tasks[t].evt) = "ignored"
    /\ tasks' = [tasks EXCEPT ![t] = [Free EXCEPT !.evt = tasks[t].evt]]
    /\ UNCHANGED <<cfg, connVars, callVars, now, GROUP_ENABLED, GROUP_BUSY, GROUP_COOLDOWN_NEXT_TS,
                   stateFile, STATE_LOCK, located, fs, PROCESS_POOL, jobDoneAt>>

HandleSwitch(t, written) ==
    LET rec == tasks[t]
        on == rec.evt.cmd = "enable"
    IN  /\ Start(t)
        /\ Command(rec.evt) \in {"enable", "disable"}
        /\ IF _is_admin(rec.evt.user)
           THEN /\ set_group_enabled(rec.evt.gid, on, written)
                /\ tasks' = [tasks EXCEPT ![t] =
                       Calling(rec, "reply", IF on THEN "enabled" ELSE "disabled")]
           ELSE /\ tasks' = [tasks EXCEPT ![t] = Calling(rec, "reply", "no_permission")]
                /\ UNCHANGED <<GROUP_ENABLED, stateFile, STATE_LOCK>>
        /\ UNCHANGED <<cfg, connVars, callVars, now, GROUP_BUSY, GROUP_COOLDOWN_NEXT_TS,
                       located, fs, PROCESS_POOL, jobDoneAt>>

\* Mutation of HandleHelp: the help text is sent without a look at the
\* switch of the group.
HandleHelp_any_group(t) ==
    LET rec == tasks[t]
    IN  /\ Start(t)
        /\ Command(rec.evt) = "help"
        /\ tasks' = [tasks EXCEPT ![t] = Calling(rec, "reply", "help")]
        /\ UNCHANGED <<cfg, connVars, callVars, now, GROUP_ENABLED, GROUP_BUSY, GROUP_COOLDOWN_NEXT_TS,
                       stateFile, STATE_LOCK, located, fs, PROCESS_POOL, jobDoneAt>>

HandleHelp(t) ==
    LET rec == tasks[t]
    IN  /\ Start(t)
        /\ Command(rec.evt) = "help"
        /\ tasks' = [tasks EXCEPT ![t] =
               Calling(rec, "reply",
                       IF is_group_enabled(rec.evt.gid) THEN "help" ELSE "not_enabled")]
        /\ UNCHANGED <<cfg, connVars, callVars, now, GROUP_ENABLED, GROUP_BUSY, GROUP_COOLDOWN_NEXT_TS,
                       stateFile, STATE_LOCK, located, fs, PROCESS_POOL, jobDoneAt>>

\* Mutation of JmVerdict: one busy flag for all the groups.
JmVerdict_one_flag(gid) ==
    IF ~is_group_enabled(gid) THEN "not_enabled"
    ELSE IF ~_check_group_cooldown(gid) THEN "cooldown"
    ELSE IF GROUP_BUSY # {} THEN "busy"
    ELSE "ack"

\* Mutation of JmVerdict: the cooldown is not looked at.
JmVerdict_no_cooldown_check(gid) ==
    IF ~is_group_enabled(gid) THEN "not_enabled"
    ELSE IF gid \in GROUP_BUSY THEN "busy"
    ELSE "ack"

\* Mutation of JmVerdict: the busy flag is not looked at.
JmVerdict_no_busy_check(gid) ==
    IF ~is_group_enabled(gid) THEN "not_enabled"
    ELSE IF ~_check_group_cooldown(gid) THEN "cooldown"
    ELSE "ack"

\* Mutation of JmVerdict: the busy flag is looked at before the switch and
\* the cooldown.
JmVerdict_busy_first(gid) ==
    IF gid \in GROUP_BUSY THEN "busy"
    ELSE IF ~is_group_enabled(gid) THEN "not_enabled"
    ELSE IF ~_check_group_cooldown(gid) THEN "cooldown"
    ELSE "ack"

\* The reply of on_event to a jm command, "ack" when the command is accepted.
JmVerdict(gid) ==
    IF ~is_group_enabled(gid) THEN "not_enabled"
    ELSE IF ~_check_group_cooldown(gid) THEN "cooldown"
    ELSE IF gid \in GROUP_BUSY THEN "busy"
    ELSE "ack"

HandleJm(t) ==
    LET rec == tasks[t]
        gid == rec.evt.gid
        verdict == JmVerdict(gid)
    IN  /\ Start(t)
        /\ Command(rec.evt) = "jm"
        /\ IF verdict = "ack"
           THEN /\ GROUP_BUSY' = GROUP_BUSY \cup {gid}
                /\ tasks' = [tasks EXCEPT ![t] = Calling(rec, "ack", "ack")]
           ELSE /\ tasks' = [tasks EXCEPT ![t] = Calling(rec, "reply", verdict)]
                /\ UNCHANGED GROUP_BUSY
        /\ UNCHANGED <<cfg, connVars, callVars, now, GROUP_ENABLED, GROUP_COOLDOWN_NEXT_TS,
                       stateFile, STATE_LOCK, located, fs, PROCESS_POOL, jobDoneAt>>

\* The reply was sent (or the send failed: _call_and_get_message_id swallows
\* it) and on_event returns.
ResumeReply(t) ==
    /\ tasks[t].pc = "reply"
    /\ \E r \in CallOutcomes(tasks[t].fut) : tasks' = [tasks EXCEPT ![t] = Free]
    /\ Resumed(t) /\ UNCHANGED <<cfg, connVars, callVars, now, GROUP_ENABLED, GROUP_BUSY, GROUP_COOLDOWN_NEXT_TS,
                   stateFile, STATE_LOCK, located, fs, PROCESS_POOL, jobDoneAt>>

(***************************************************************************)
(* handle_jm_command, one action for each place where it is suspended.     *)
(***************************************************************************)
\* The acknowledgement was sent; get_login_info is called.
ResumeAck(t) ==
    /\ tasks[t].pc = "ack"
    /\ \E r \in CallOutcomes(tasks[t].fut) :
         tasks' = [tasks EXCEPT ![t] = Calling(tasks[t], "login", "get_login_info")]
    /\ Resumed(t) /\ UNCHANGED <<cfg, connVars, callVars, now, GROUP_ENABLED, GROUP_BUSY, GROUP_COOLDOWN_NEXT_TS,
                   stateFile, STATE_LOCK, located, fs, PROCESS_POOL, jobDoneAt>>

\* loop.run_in_executor(_get_process_pool(), ...): the work item is queued.
Submit(t) == Append(PROCESS_POOL, t)

\* ProcessPoolExecutor(max_workers=1)
max_workers == 1

\* Mutation of Running: every work item has a worker process of its own.
Running_all == {PROCESS_POOL[i] : i \in 1..Len(PROCESS_POOL)}

\* The tasks whose work item a worker process executes: the executor hands
\* the items to its max_workers processes in the order of their submission.
Running ==
    {PROCESS_POOL[i] : i \in 1..(IF Len(PROCESS_POOL) < max_workers
                                 THEN Len(PROCESS_POOL) ELSE max_workers)}

\* The queue once the work item of t has ended.
Finished(t) == SelectSeq(PROCESS_POOL, LAMBDA x : x # t)

\* Mutation of ResumeLogin: the work directory is named and made before
\* self_id is looked at.
ResumeLogin_dir_first(t) ==
    LET rec == tasks[t]
        dir == <<rec.evt.album, now>>
    IN  /\ rec.pc = "login"
        /\ fs' = fs \cup {dir}
        /\ \E r \in CallOutcomes(rec.fut) :
             \/ /\ r \in {"failed", "raise"}
                /\ tasks' = [tasks EXCEPT ![t] =
                       FailNotice([rec EXCEPT !.work_dir = dir], "self_id", FALSE)]
                /\ UNCHANGED PROCESS_POOL
             \/ /\ r = "ok"
                /\ IF cfg.jm_yaml_readable
                   THEN /\ PROCESS_POOL' = Submit(t)
                        /\ tasks' = [tasks EXCEPT ![t] =
                               [rec EXCEPT !.pc = "acquire", !.msg = "", !.fut = "none",
                                           !.work_dir = dir]]
                   ELSE /\ tasks' = [tasks EXCEPT ![t] =
                               FailNotice([rec EXCEPT !.work_dir = dir], "exception", TRUE)]
                        /\ UNCHANGED PROCESS_POOL
        /\ Resumed(t) /\ UNCHANGED <<cfg, connVars, callVars, now, GROUP_ENABLED, GROUP_BUSY, GROUP_COOLDOWN_NEXT_TS,
                       stateFile, STATE_LOCK, located, jobDoneAt>>

\* get_login_info returned or raised.  With a usable self_id the work
\* directory is named and made, the temporary yaml is written
\* (_prepare_temp_yaml) and the download is submitted; _prepare_temp_yaml
\* raises when the source yaml cannot be read, and the exception leaves
\* handle_jm_command.
ResumeLogin(t) ==
    LET rec == tasks[t]
        dir == <<rec.evt.album, now>>
    IN  /\ rec.pc = "login"
        /\ \E r \in CallOutcomes(rec.fut) :
             \/ /\ r \in {"failed", "raise"}
                /\ tasks' = [tasks EXCEPT ![t] = FailNotice(rec, "self_id", FALSE)]
                /\ UNCHANGED <<fs, PROCESS_POOL>>
             \/ /\ r = "ok"
                /\ fs' = fs \cup {dir}
                /\ IF cfg.jm_yaml_readable
                   THEN /\ PROCESS_POOL' = Submit(t)
                        /\ tasks' = [tasks EXCEPT ![t] =
                               [rec EXCEPT !.pc = "acquire", !.msg = "", !.fut = "none",
                                           !.work_dir = dir]]
                   ELSE /\ tasks' = [tasks EXCEPT ![t] =
                               FailNotice([rec EXCEPT !.work_dir = dir], "exception", TRUE)]
                        /\ UNCHANGED PROCESS_POOL
        /\ Resumed(t) /\ UNCHANGED <<cfg, connVars, callVars, now, GROUP_ENABLED, GROUP_BUSY, GROUP_COOLDOWN_NEXT_TS,
                       stateFile, STATE_LOCK, located, jobDoneAt>>

\* The download ends in the worker process.  On success the album directory
\* is located (_find_album_dir_in_work: it raises when the work directory is
\* gone) and the PDF conversion is submitted.
AcquireDone(t) ==
    LET rec == tasks[t]
    IN  /\ rec.pc = "acquire"
        /\ t \in Running
        /\ \/ /\ PROCESS_POOL' = Finished(t)
              /\ tasks' = [tasks EXCEPT ![t] = FailNotice(rec, "download", FALSE)]
           \/ /\ rec.work_dir \in fs
              /\ PROCESS_POOL' = Append(Finished(t), t)
              /\ tasks' = [tasks EXCEPT ![t] = [rec EXCEPT !.pc = "transform"]]
           \/ /\ rec.work_dir \in fs
              /\ PROCESS_POOL' = Finished(t)
              /\ tasks' = [tasks EXCEPT ![t] = FailNotice(rec, "locate", FALSE)]
           \/ /\ rec.work_dir \notin fs
              /\ PROCESS_POOL' = Finished(t)
              /\ tasks' = [tasks EXCEPT ![t] = FailNotice(rec, "exception", TRUE)]
        /\ Resumed(t) /\ UNCHANGED <<cfg, connVars, callVars, now, GROUP_ENABLED, GROUP_BUSY, GROUP_COOLDOWN_NEXT_TS,
                       stateFile, STATE_LOCK, located, fs, jobDoneAt>>

\* Mutation of AfterTransform: without a PDF the stats message is left out
\* and "failed" is sent at once.
AfterTransform_no_stats(rec, pdf) ==
    IF pdf = "file"
    THEN Calling([rec EXCEPT !.pdf = pdf], "upload", "upload_group_file")
    ELSE FailNotice([rec EXCEPT !.pdf = pdf], "send", FALSE)

\* What follows the PDF conversion: the upload when the PDF exists, else the
\* stats message at once.
AfterTransform(rec, pdf) ==
    IF pdf = "file"
    THEN Calling([rec EXCEPT !.pdf = pdf], "upload", "upload_group_file")
    ELSE Calling([rec EXCEPT !.pdf = pdf], "stats", StatsMessage(pdf))

\* The conversion ends: pdf_path is an existing file ("file"), a path with no
\* file ("missing"), or None because all2PDF raised or gave nothing ("none").
TransformDone(t) ==
    LET rec == tasks[t]
    IN  /\ rec.pc = "transform"
        /\ t \in Running
        /\ PROCESS_POOL' = Finished(t)
        /\ \E pdf \in {"file", "missing", "none"} :
             tasks' = [tasks EXCEPT ![t] = AfterTransform(rec, pdf)]
        /\ Resumed(t) /\ UNCHANGED <<cfg, connVars, callVars, now, GROUP_ENABLED, GROUP_BUSY, GROUP_COOLDOWN_NEXT_TS,
                       stateFile, STATE_LOCK, located, fs, jobDoneAt>>

\* upload_group_file returned or raised: ok from the response, or the
\* fallback file message when it raised.
ResumeUpload(t) ==
    LET rec == tasks[t]
    IN  /\ rec.pc = "upload"
        /\ \E r \in CallOutcomes(rec.fut) :
             tasks' = [tasks EXCEPT ![t] =
                 IF r = "raise" THEN Calling(rec, "fallback", "file")
                 ELSE Calling([rec EXCEPT !.ok = (r = "ok")], "stats",
                              StatsMessage(rec.pdf))]
        /\ Resumed(t) /\ UNCHANGED <<cfg, connVars, callVars, now, GROUP_ENABLED, GROUP_BUSY, GROUP_COOLDOWN_NEXT_TS,
                       stateFile, STATE_LOCK, located, fs, PROCESS_POOL, jobDoneAt>>

\* The fallback send is over; _call_and_get_message_id never raises, so ok
\* becomes True whatever the send did.  undelivered records a fallback send
\* that raised or was answered with a failure: the file reached the group
\* neither by the upload nor by the message.
ResumeFallback(t) ==
    LET rec == tasks[t]
    IN  /\ rec.pc = "fallback"
        /\ \E r \in CallOutcomes(rec.fut) :
             tasks' = [tasks EXCEPT ![t] =
                 Calling([rec EXCEPT !.ok = TRUE, !.undelivered = (r # "ok")],
                         "stats", StatsMessage(rec.pdf))]
        /\ Resumed(t) /\ UNCHANGED <<cfg, connVars, callVars, now, GROUP_ENABLED, GROUP_BUSY, GROUP_COOLDOWN_NEXT_TS,
                       stateFile, STATE_LOCK, located, fs, PROCESS_POOL, jobDoneAt>>

\* The stats message is over: the completion notice, or "failed".
ResumeStats(t) ==
    LET rec == tasks[t]
    IN  /\ rec.pc = "stats"
        /\ \E r \in CallOutcomes(rec.fut) :
             tasks' = [tasks EXCEPT ![t] =
                 IF rec.ok THEN Calling(rec, "done_notice", "done")
                 ELSE FailNotice(rec, "send", FALSE)]
        /\ Resumed(t) /\ UNCHANGED <<cfg, connVars, callVars, now, GROUP_ENABLED, GROUP_BUSY, GROUP_COOLDOWN_NEXT_TS,
                       stateFile, STATE_LOCK, located, fs, PROCESS_POOL, jobDoneAt>>

\* The completion notice is over: cleanup, return, finally.
ResumeDone(t) ==
    /\ tasks[t].pc = "done_notice"
    /\ \E r \in CallOutcomes(tasks[t].fut) : JobExit(t)
    /\ Resumed(t) /\ UNCHANGED <<cfg, connVars, callVars, now, GROUP_ENABLED, stateFile, STATE_LOCK, located, PROCESS_POOL>>

\* "failed" is over: _notify_admins starts with the first administrator.
ResumeFailNotice(t) ==
    LET rec == tasks[t]
    IN  /\ rec.pc = "fail_notice"
        /\ \E r \in CallOutcomes(rec.fut) :
             IF NumAdmins = 0
             THEN /\ JobExit(t)
                  /\ Resumed(t) /\ UNCHANGED <<cfg, connVars, callVars, now, GROUP_ENABLED, stateFile, STATE_LOCK, located, PROCESS_POOL>>
             ELSE /\ tasks' = [tasks EXCEPT ![t] =
                         [Calling(rec, "notify_send", "report") EXCEPT !.adm = 1]]
                  /\ Resumed(t) /\ UNCHANGED <<cfg, connVars, callVars, now, GROUP_ENABLED, GROUP_BUSY,
                                 GROUP_COOLDOWN_NEXT_TS, stateFile, STATE_LOCK, located, fs, PROCESS_POOL,
                                 jobDoneAt>>

\* The report to one administrator is over: asyncio.sleep(0.05).
ResumeNotifySend(t) ==
    LET rec == tasks[t]
    IN  /\ rec.pc = "notify_send"
        /\ \E r \in CallOutcomes(rec.fut) :
             tasks' = [tasks EXCEPT ![t] =
                 [rec EXCEPT !.pc = "notify_sleep", !.msg = "", !.fut = "none"]]
        /\ Resumed(t) /\ UNCHANGED <<cfg, connVars, callVars, now, GROUP_ENABLED, GROUP_BUSY, GROUP_COOLDOWN_NEXT_TS,
                       stateFile, STATE_LOCK, located, fs, PROCESS_POOL, jobDoneAt>>

\* The sleep is over: the next administrator, or the end of the job.
ResumeNotifySleep(t) ==
    LET rec == tasks[t]
    IN  /\ rec.pc = "notify_sleep"
        /\ IF rec.adm < NumAdmins
           THEN /\ tasks' = [tasks EXCEPT ![t] =
                       [Calling(rec, "notify_send", "report") EXCEPT !.adm = rec.adm + 1]]
                /\ Resumed(t) /\ UNCHANGED <<cfg, connVars, callVars, now, GROUP_ENABLED, GROUP_BUSY,
                               GROUP_COOLDOWN_NEXT_TS, stateFile, STATE_LOCK, located, fs, PROCESS_POOL,
                               jobDoneAt>>
           ELSE /\ JobExit(t)
                /\ Resumed(t) /\ UNCHANGED <<cfg, connVars, callVars, now, GROUP_ENABLED, stateFile, STATE_LOCK, located, PROCESS_POOL>>

\* The steps of a task that runs a jm command.
JobStep(t) ==
    \/ HandleJm(t)
    \/ ResumeReply(t)
    \/ ResumeAck(t)
    \/ ResumeLogin(t)
    \/ AcquireDone(t)
    \/ TransformDone(t)
    \/ ResumeUpload(t)
    \/ ResumeFallback(t)
    \/ ResumeStats(t)
    \/ ResumeDone(t)
    \/ ResumeFailNotice(t)
    \/ ResumeNotifySend(t)
    \/ ResumeNotifySleep(t)

\* The steps of a task that runs a jm command or an administrator's switch.
TaskStep(t) == HandleSwitch(t, TRUE) \/ JobStep(t)

(***************************************************************************)
(* run_forever.                                                            *)
(***************************************************************************)
\* websockets.connect succeeds: self._ws = ws, and _handle_connected starts
\* the receiver task.
ConnectOk ==
    /\ rf = "connecting"
    /\ ws' = "open"
    /\ rf' = "connected"
    /\ Dial
    /\ UNCHANGED <<ob, delay, lostSeq, callVars, botVars>>

\* Mutation of reconnect_interval: the wait doubles from one attempt to the
\* next.
reconnect_interval_backoff ==
    IF delay = 0 THEN (IF ob.reconnect_interval > 1 THEN ob.reconnect_interval ELSE 1)
    ELSE 2 * delay

\* reconnect_interval = max(1, int(self._ob.reconnect_interval))
reconnect_interval == IF ob.reconnect_interval > 1 THEN ob.reconnect_interval ELSE 1

\* The reconnect wait starts: asyncio.sleep(reconnect_interval).
Sleep ==
    /\ rf' = "sleeping"
    /\ delay' = reconnect_interval
    /\ UNCHANGED ob

\* Mutation of FailPending: the futures are left as they are.
FailPending_skip == futures

\* Mutation of FailPending: the exception is set on every future of the
\* table, done or not.
FailPending_all ==
    [e \in 1..MaxEcho |-> IF e \in _pending THEN "exception" ELSE futures[e]]

\* The finally block of run_forever on the futures: every future of the
\* table that is not done gets the exception "connection lost".
FailPending ==
    [e \in 1..MaxEcho |->
        IF e \in _pending /\ futures[e] = "pending" THEN "exception" ELSE futures[e]]

\* The finally block of run_forever on the table: self._pending.clear().
ClearPending == {}

\* The finally block of run_forever, on the client and on the calls the
\* pipeline is suspended in.
Finally ==
    /\ ws' = "none"
    /\ lostSeq' = _echo_seq
    /\ futures' = FailPending
    /\ _pending' = ClearPending
    /\ tasks' = [t \in Tasks |->
                   IF tasks[t].fut = "wait" THEN [tasks[t] EXCEPT !.fut = "lost"]
                   ELSE tasks[t]]

\* websockets.connect raises (refused, timeout): except, finally, sleep.
ConnectFail ==
    /\ rf = "connecting"
    /\ Dial
    /\ Finally
    /\ Sleep
    /\ UNCHANGED <<_echo_seq, calls, frame, cfg, ready, now, GROUP_ENABLED, GROUP_BUSY,
                   GROUP_COOLDOWN_NEXT_TS, stateFile, STATE_LOCK, located, fs, PROCESS_POOL, jobDoneAt>>

\* The receiver task ends: ws.recv() raises in _receiver_loop (the connection
\* is closed: peer, network error, missed pong), or the loop itself raises on
\* a frame and the connection is still open.  run_forever is woken and leaves
\* the "async with" block, which waits for the closing handshake.
LoopEnds(closed) ==
    /\ ws' = IF closed THEN "closed" ELSE "open"
    /\ rf' = "closing"
    /\ UNCHANGED <<ob, delay, dial, lostSeq>>
    /\ calls' = [c \in Callers |->
                   IF calls[c].pc = "sending" THEN [calls[c] EXCEPT !.closed = closed]
                   ELSE IF calls[c].pc = "waiting" /\ futures[calls[c].echo] = "pending"
                        THEN [calls[c] EXCEPT !.atLoss = TRUE]
                        ELSE calls[c]]

\* raw = await ws.recv() raises in _receiver_loop: the connection is closed,
\* or is being closed.
ReceiverEnds(closed) ==
    /\ rf = "connected"
    /\ LoopEnds(closed)
    /\ UNCHANGED <<_pending, futures, _echo_seq, frame, botVars>>

\* The connection is closed: except, finally, and the reconnect wait starts.
Cleanup ==
    /\ rf = "closing"
    /\ Finally
    /\ Sleep
    /\ UNCHANGED dial
    /\ UNCHANGED <<_echo_seq, calls, frame, cfg, ready, now, GROUP_ENABLED, GROUP_BUSY,
                   GROUP_COOLDOWN_NEXT_TS, stateFile, STATE_LOCK, located, fs, PROCESS_POOL, jobDoneAt>>

\* asyncio.sleep(reconnect_interval) is over: the next connect attempt.
WakeUp ==
    /\ rf = "sleeping"
    /\ rf' = "connecting"
    /\ UNCHANGED <<ws, ob, delay, dial, lostSeq, callVars, botVars>>

(***************************************************************************)
(* call_api and _receiver_loop on the correlation table.                   *)
(***************************************************************************)
\* Mutation of _next_echo: the lowest number no entry of the table has.
_next_echo_lowest_free == CHOOSE n \in 1..(MaxEcho + 1) :
                             n \notin _pending /\ \A k \in 1..(n - 1) : k \in _pending

\* _next_echo: self._echo_seq += 1; the number n of "jm-bot-n".
_next_echo == _echo_seq + 1

\* A future nothing refers to any more is dropped.
Drop(futs, pend, e) == IF e \in pend THEN futs ELSE [futs EXCEPT ![e] = "none"]

\* Mutation of CallApi: the echo is taken before _require_ws is called.
CallApi_echo_first(c) ==
    /\ calls[c].pc = "idle"
    /\ _echo_seq < MaxEcho
    /\ _echo_seq' = _next_echo
    /\ IF ws = "none"
       THEN /\ calls' = [calls EXCEPT ![c] = [Idle EXCEPT !.pc = "done",
                                                          !.res = "not connected"]]
            /\ UNCHANGED <<_pending, futures>>
       ELSE /\ _pending' = _pending \cup {_next_echo}
            /\ futures' = [futures EXCEPT ![_next_echo] = "pending"]
            /\ calls' = [calls EXCEPT ![c] = [Idle EXCEPT !.pc = "sending",
                                                          !.echo = _next_echo,
                                                          !.closed = (ws = "closed")]]
    /\ UNCHANGED <<connVars, frame, botVars>>

\* call_api up to "await ws.send(payload)": _require_ws raises when _ws is
\* None; otherwise the echo is taken and the future registered.
CallApi(c) ==
    /\ calls[c].pc = "idle"
    /\ IF ws = "none"
       THEN /\ calls' = [calls EXCEPT ![c] = [Idle EXCEPT !.pc = "done",
                                                          !.res = "not connected"]]
            /\ UNCHANGED <<_pending, futures, _echo_seq>>
       ELSE /\ _echo_seq < MaxEcho
            /\ _echo_seq' = _next_echo
            /\ _pending' = _pending \cup {_next_echo}
            /\ futures' = [futures EXCEPT ![_next_echo] = "pending"]
            /\ calls' = [calls EXCEPT ![c] = [Idle EXCEPT !.pc = "sending",
                                                          !.echo = _next_echo,
                                                          !.closed = (ws = "closed")]]
    /\ UNCHANGED <<connVars, frame, botVars>>

\* ws.send is over: the call enters wait_for, or, the connection being
\* closed, send raises and the exception leaves call_api (the send is not
\* inside the try block).
SendDone(c) ==
    /\ calls[c].pc = "sending"
    /\ IF calls[c].closed
       THEN /\ calls' = [calls EXCEPT ![c] = [@ EXCEPT !.pc = "done", !.res = "send error"]]
            /\ futures' = Drop(futures, _pending, calls[c].echo)
       ELSE /\ calls' = [calls EXCEPT ![c] = [@ EXCEPT !.pc = "waiting"]]
            /\ UNCHANGED futures
    /\ UNCHANGED <<connVars, _pending, _echo_seq, frame, botVars>>

\* The timeout of wait_for elapses: the future is cancelled, and the caller
\* is woken.
Timeout(c) ==
    /\ calls[c].pc = "waiting"
    /\ futures[calls[c].echo] = "pending"
    /\ futures' = [futures EXCEPT ![calls[c].echo] = "cancelled"]
    /\ UNCHANGED <<connVars, _pending, _echo_seq, calls, frame, botVars>>

\* How a call ends when its future is done.
ResultOf(fut) == CASE fut = "result" -> "response"
                   [] fut = "cancelled" -> "timeout"
                   [] OTHER -> "connection lost"

\* The caller is resumed in wait_for with its future done: it returns the
\* response, or pops its echo and raises.
Resume(c) ==
    LET e == calls[c].echo
    IN  /\ calls[c].pc = "waiting"
        /\ futures[e] \in {"result", "exception", "cancelled"}
        /\ _pending' = IF futures[e] = "result" THEN _pending ELSE _pending \ {e}
        /\ futures' = Drop(futures, _pending', e)
        /\ calls' = [calls EXCEPT ![c] = [@ EXCEPT !.pc = "done",
                                                   !.res = ResultOf(futures[e])]]
        /\ UNCHANGED <<connVars, _echo_seq, frame, botVars>>

\* The caller of call_api goes on; the slot stands for another invocation.
Return(c) ==
    /\ calls[c].pc = "done"
    /\ calls' = [calls EXCEPT ![c] = Idle]
    /\ UNCHANGED <<connVars, _pending, futures, _echo_seq, frame, botVars>>

\* Mutation of PopEcho: the oldest entry is taken, whatever the echo.
PopEcho_oldest(echo) ==
    IF _pending = {} THEN 0 ELSE CHOOSE e \in _pending : \A x \in _pending : e <= x

\* fut = self._pending.pop(echo, None): the echo whose entry is taken, 0 for None.
PopEcho(echo) == IF echo \in _pending THEN echo ELSE 0

\* Mutation of SetResult: the result is set whether the future is done or not.
SetResult_always(fut) == "result"

\* if fut is not None and not fut.done(): fut.set_result(msg)
SetResult(fut) == IF fut = "pending" THEN "result" ELSE fut

\* "status" in msg: a TypeError when msg, the value json.loads returned, is
\* a number, true, false or null; a test that fails when msg is an object
\* without the key, an array without that element, or a string without that
\* substring (the frames of kind "unknown" and "array").
KeyTestRaises(kind) == kind = "number"

\* _receiver_loop takes a frame.  A response pops the entry of its echo and
\* sets the result of the future unless it is done; a frame json.loads
\* rejects is logged; on a frame whose key test raises, the exception leaves
\* the loop and the receiver task ends with the connection open; any other
\* frame is logged.
RecvFrame(f) ==
    LET e == PopEcho(f.echo)
    IN  /\ rf = "connected" /\ ws = "open"
        /\ frame' = [kind |-> f.kind, echo |-> f.echo, seq |-> 1 - frame.seq,
                     at |-> _echo_seq]
        /\ IF f.kind # "nonjson" /\ KeyTestRaises(f.kind)
           THEN /\ LoopEnds(FALSE)
                /\ UNCHANGED <<_pending, futures, _echo_seq, botVars>>
           ELSE /\ IF f.kind = "response" /\ e # 0
                   THEN /\ _pending' = _pending \ {e}
                        /\ futures' = [futures EXCEPT ![e] = SetResult(@)]
                   ELSE UNCHANGED <<_pending, futures>>
                /\ UNCHANGED <<connVars, _echo_seq, calls, botVars>>

(***************************************************************************)
(* The specifications.                                                     *)
(***************************************************************************)
\* The router and the pipeline on a connection that stays up, in groups that
\* are switched on.
Next ==
    \/ ConnectOk
    \/ Tick
    \/ \E evt \in JobEvents : ReceiveEvent(evt)
    \/ \E t \in Tasks : TaskStep(t)

Spec == Init /\ [][Next]_vars

\* The router and the pipeline of one group that is switched on and off.
NextSwitch ==
    \/ ConnectOk
    \/ Tick
    \/ \E evt \in SwitchEvents : ReceiveEvent(evt)
    \/ \E t \in Tasks : TaskStep(t)

SpecSwitch == Init /\ [][NextSwitch]_vars

\* The start under one configuration.
InitFixed == Init /\ cfg = [per_group_cooldown_enabled |-> FALSE,
                         per_group_cooldown_seconds |-> CooldownSeconds,
                         jm_yaml_readable |-> TRUE]

\* The client alone: connections, calls and frames.
NextWS ==
    \/ ConnectOk
    \/ ConnectFail
    \/ \E closed \in BOOLEAN : ReceiverEnds(closed)
    \/ Cleanup
    \/ WakeUp
    \/ \E c \in Callers : CallApi(c)
    \/ \E c \in Callers : SendDone(c)
    \/ \E c \in Callers : Timeout(c)
    \/ \E c \in Callers : Resume(c)
    \/ \E c \in Callers : Return(c)
    \/ \E f \in Frames : RecvFrame(f)

SpecWS == InitFixed /\ [][NextWS]_vars

\* run_forever under every reconnect interval, with the calls it fails.  The
\* closing handshake ends (close_timeout), the reconnect wait ends, and a
\* connect attempt ends (open_timeout).
InitRetry ==
    /\ cfg = [per_group_cooldown_enabled |-> FALSE,
              per_group_cooldown_seconds |-> CooldownSeconds,
              jm_yaml_readable |-> TRUE]
    /\ ob \in ObChoices
    /\ Boot

NextRetry ==
    \/ ConnectOk
    \/ ConnectFail
    \/ \E closed \in BOOLEAN : ReceiverEnds(closed)
    \/ Cleanup
    \/ WakeUp
    \/ \E c \in Callers : CallApi(c)
    \/ \E c \in Callers : SendDone(c)
    \/ \E c \in Callers : Timeout(c)
    \/ \E c \in Callers : Resume(c)
    \/ \E c \in Callers : Return(c)

\* run_forever under every configuration of the credential.
InitAuth ==
    /\ cfg = [per_group_cooldown_enabled |-> FALSE,
              per_group_cooldown_seconds |-> CooldownSeconds,
              jm_yaml_readable |-> TRUE]
    /\ ob \in AuthChoices
    /\ Boot

SpecAuth == InitAuth /\ [][NextRetry]_vars

SpecRetry ==
    /\ InitRetry /\ [][NextRetry]_vars
    /\ WF_vars(Cleanup) /\ WF_vars(WakeUp) /\ WF_vars(ConnectOk \/ ConnectFail)

\* The state store: the switches, with a write of the state file that can
\* fail, and the help command that shows is_group_enabled.
NextStore ==
    \/ ConnectOk
    \/ \E evt \in StoreEvents : ReceiveEvent(evt)
    \/ \E t \in Tasks : HandleIgnored(t)
    \/ \E t \in Tasks, written \in BOOLEAN : HandleSwitch(t, written)
    \/ \E t \in Tasks : HandleHelp(t)
    \/ \E t \in Tasks : ResumeReply(t)

SpecStore == InitFixed /\ [][NextStore]_vars

\* The locate stage alone: _find_album_dir_in_work on every listing.
InitLocate ==
    /\ Init
    /\ cfg = [per_group_cooldown_enabled |-> FALSE,
              per_group_cooldown_seconds |-> CooldownSeconds,
              jm_yaml_readable |-> TRUE]

Arrange ==
    /\ located = NoLocate
    /\ \E w \in Listings : located' = [NoLocate EXCEPT !.work = w]
    /\ UNCHANGED <<connVars, callVars, cfg, now, GROUP_ENABLED, GROUP_BUSY,
                   GROUP_COOLDOWN_NEXT_TS, stateFile, STATE_LOCK, fs, PROCESS_POOL,
                   tasks, ready, jobDoneAt>>

Locate ==
    /\ ~located.done
    /\ located' = [located EXCEPT
                      !.album_dir = _find_album_dir_in_work(located.work, located.album_id),
                      !.done = TRUE]
    /\ UNCHANGED <<connVars, callVars, cfg, now, GROUP_ENABLED, GROUP_BUSY,
                   GROUP_COOLDOWN_NEXT_TS, stateFile, STATE_LOCK, fs, PROCESS_POOL,
                   tasks, ready, jobDoneAt>>

NextLocate == Arrange \/ Locate

SpecLocate == InitLocate /\ [][NextLocate]_vars

\* The filters of on_event: the commands, and the events that carry the
\* text of a command and are no group messages.
NextFilter ==
    \/ ConnectOk
    \/ \E evt \in FilterEvents : ReceiveEvent(evt)
    \/ \E t \in Tasks : HandleIgnored(t)
    \/ \E t \in Tasks : HandleHelp(t)
    \/ \E t \in Tasks : TaskStep(t)

SpecFilter == InitFixed /\ [][NextFilter]_vars

\* The router: every command, and the texts that start with a switch command
\* and go on, from every user; the jobs of the jm commands run.
NextRoute ==
    \/ ConnectOk
    \/ \E evt \in RouteEvents : ReceiveEvent(evt)
    \/ \E t \in Tasks : HandleIgnored(t)
    \/ \E t \in Tasks : HandleHelp(t)
    \/ \E t \in Tasks : TaskStep(t)

SpecRoute == InitFixed /\ [][NextRoute]_vars

\* The pipeline on a connection that comes and goes, in groups that the
\* state file loaded at startup (_load_group_state) switches on; time stands
\* still.  Every task that can run does run: the event loop resumes a ready
\* task, a call ends at the latest by its timeout, and the download and the
\* conversion are taken to end.
InitLive ==
    /\ cfg = [per_group_cooldown_enabled |-> FALSE,
              per_group_cooldown_seconds |-> CooldownSeconds,
              jm_yaml_readable |-> TRUE]
    /\ ws = "none" /\ rf = "connecting"
    /\ ob = DefaultOb /\ delay = 0 /\ lostSeq = 0
    /\ dial = [params |-> build_ws_connect_params(ob), attempted |-> FALSE]
    /\ _pending = {} /\ futures = [e \in 1..MaxEcho |-> "none"] /\ _echo_seq = 0
    /\ calls = [c \in Callers |-> Idle] /\ frame = NoFrame
    /\ now = 0
    /\ GROUP_ENABLED = [g \in Groups |-> TRUE]
    /\ GROUP_BUSY = {} /\ GROUP_COOLDOWN_NEXT_TS = EmptyDict
    /\ stateFile = [exists |-> TRUE, data |-> DumpGroupState(GROUP_ENABLED)]
    /\ STATE_LOCK = "unlocked"
    /\ located = NoLocate
    /\ fs = {} /\ PROCESS_POOL = <<>>
    /\ tasks = [t \in Tasks |-> Free]
    /\ ready = <<>>
    /\ jobDoneAt = EmptyDict

NextLive ==
    \/ ConnectOk
    \/ ConnectFail
    \/ \E closed \in BOOLEAN : ReceiverEnds(closed)
    \/ Cleanup
    \/ WakeUp
    \/ \E evt \in JmEvents : ReceiveEvent(evt)
    \/ \E t \in Tasks : JobStep(t)

SpecLive == InitLive /\ [][NextLive]_vars /\ \A t \in Tasks : SF_vars(JobStep(t))

\* The receive loop and the jobs: the frames of the events and of the
\* responses the jobs wait for, in enabled groups.
NextLoop ==
    \/ ConnectOk
    \/ ConnectFail
    \/ \E closed \in BOOLEAN : ReceiverEnds(closed)
    \/ Cleanup
    \/ WakeUp
    \/ \E evt \in JmEvents : ReceiveEvent(evt)
    \/ \E t \in Tasks : ReceiveResponse(t)
    \/ \E t \in Tasks : JobStep(t)

SpecLoop == InitLive /\ [][NextLoop]_vars

(***************************************************************************)
(* Properties of the router and the pipeline (Spec; SpecSwitch for those   *)
(* that turn on a group being switched off: C3, C4, C9).                   *)
(***************************************************************************)
\* C3, as stated: a jm command handled while the busy flag of its group is
\* set is answered with the busy reply.  It fails for a group that was
\* disabled while its job runs: the answer is the not-enabled notice.
C3_BusyReplyWhenever ==
    [][\A t \in Tasks :
         (/\ tasks[t].pc = "start" /\ tasks[t].evt.cmd = "jm"
          /\ tasks'[t] # tasks[t]
          /\ tasks[t].evt.gid \in GROUP_BUSY)
         => (tasks'[t].pc = "reply" /\ tasks'[t].msg = "busy")]_vars

\* C3, amended: for each group at most one handle_jm_command is in progress
\* at any time, and the busy flag is set while it is; a jm command handled
\* while its group is enabled and busy gets the busy reply and changes neither
\* the busy flags, the work directories nor the pool; a task that replies
\* only ends (the command is not run later); and a job starts only in the
\* step that accepts its command and sets the busy flag.
C3_MutualExclusion ==
    /\ [](\A t, u \in Tasks :
            (t # u /\ InJob(t) /\ InJob(u)) => tasks[t].evt.gid # tasks[u].evt.gid)
    /\ [](\A t \in Tasks : InJob(t) => tasks[t].evt.gid \in GROUP_BUSY)
    /\ [][\A t \in Tasks :
            /\ (/\ tasks[t].pc = "start" /\ tasks[t].evt.cmd = "jm"
                /\ tasks'[t] # tasks[t]
                /\ tasks[t].evt.gid \in DOMAIN GROUP_ENABLED
                /\ GROUP_ENABLED[tasks[t].evt.gid]
                /\ tasks[t].evt.gid \in GROUP_BUSY)
               => (/\ tasks'[t].pc = "reply" /\ tasks'[t].msg = "busy"
                   /\ UNCHANGED <<GROUP_BUSY, fs, PROCESS_POOL>>)
            /\ (tasks[t].pc = "reply" /\ tasks'[t] # tasks[t]) => tasks'[t] = Free
            /\ (tasks[t].pc \notin JobPcs /\ tasks'[t].pc \in JobPcs)
               => (/\ tasks[t].pc = "start" /\ tasks'[t].pc = "ack"
                   /\ tasks[t].evt.gid \notin GROUP_BUSY
                   /\ tasks[t].evt.gid \in GROUP_BUSY')]_vars

\* A command gets the busy reply while the job of its group is in progress.
C3_Witness ==
    \E t, u \in Tasks :
        /\ InJob(t)
        /\ tasks[u].pc = "reply" /\ tasks[u].msg = "busy" /\ tasks[u].evt.cmd = "jm"
        /\ tasks[u].evt.gid = tasks[t].evt.gid

\* C4, as stated: with cooldown on and seconds > 0, a jm command handled less
\* than `seconds` after the end of a job of its group gets the cooldown reply.
\* It fails for a group disabled in the meantime: the not-enabled notice.
C4_CooldownReplyInWindow ==
    [][\A t \in Tasks :
         (/\ tasks[t].pc = "start" /\ tasks[t].evt.cmd = "jm"
          /\ tasks'[t] # tasks[t]
          /\ cfg.per_group_cooldown_enabled /\ cfg.per_group_cooldown_seconds > 0
          /\ tasks[t].evt.gid \in DOMAIN jobDoneAt
          /\ now < jobDoneAt[tasks[t].evt.gid] + cfg.per_group_cooldown_seconds)
         => (tasks'[t].pc = "reply" /\ tasks'[t].msg = "cooldown")]_vars

\* C4, amended: with cooldown on and seconds > 0, a jm command handled less
\* than `seconds` after the end of a job of its group is never accepted: it
\* sets no busy flag and gets the cooldown reply when the group is enabled,
\* the not-enabled notice when it is not.
C4_CooldownWindow ==
    [][\A t \in Tasks :
         (/\ tasks[t].pc = "start" /\ tasks[t].evt.cmd = "jm"
          /\ tasks'[t] # tasks[t]
          /\ cfg.per_group_cooldown_enabled /\ cfg.per_group_cooldown_seconds > 0
          /\ tasks[t].evt.gid \in DOMAIN jobDoneAt
          /\ now < jobDoneAt[tasks[t].evt.gid] + cfg.per_group_cooldown_seconds)
         => (/\ tasks'[t].pc = "reply"
             /\ tasks'[t].msg =
                  IF DictGet(GROUP_ENABLED, tasks[t].evt.gid, FALSE)
                  THEN "cooldown" ELSE "not_enabled"
             /\ UNCHANGED GROUP_BUSY)]_vars

\* A command gets the cooldown reply one second after the job of its group
\* ended, the window being two seconds.
C4_Witness ==
    \E t \in Tasks :
        /\ tasks[t].pc = "reply" /\ tasks[t].msg = "cooldown"
        /\ tasks[t].evt.gid \in DOMAIN jobDoneAt
        /\ now = jobDoneAt[tasks[t].evt.gid] + 1
        /\ now < jobDoneAt[tasks[t].evt.gid] + cfg.per_group_cooldown_seconds

\* C5: with cooldown disabled, or its duration 0 or negative, no cooldown
\* entry is ever written and no command gets the cooldown reply, and a jm
\* command handled for an enabled group that is not busy is accepted.
C5_NoThrottling ==
    /\ []((~cfg.per_group_cooldown_enabled \/ cfg.per_group_cooldown_seconds <= 0)
          => (/\ GROUP_COOLDOWN_NEXT_TS = EmptyDict
              /\ \A t \in Tasks : tasks[t].msg # "cooldown"
              /\ \A g \in Groups : _check_group_cooldown(g)))
    /\ [][\A t \in Tasks :
            (/\ ~cfg.per_group_cooldown_enabled \/ cfg.per_group_cooldown_seconds <= 0
             /\ tasks[t].pc = "start" /\ tasks[t].evt.cmd = "jm"
             /\ tasks'[t] # tasks[t]
             /\ DictGet(GROUP_ENABLED, tasks[t].evt.gid, FALSE)
             /\ tasks[t].evt.gid \notin GROUP_BUSY)
            => (tasks'[t].pc = "ack" /\ tasks[t].evt.gid \in GROUP_BUSY')]_vars

\* With a duration of 0, a command is accepted in the second in which the
\* previous job of the group ended (its work directory was left behind).
C5_Witness ==
    /\ cfg.per_group_cooldown_enabled /\ cfg.per_group_cooldown_seconds = 0
    /\ \E t \in Tasks :
        /\ tasks[t].pc = "ack"
        /\ DOMAIN GROUP_ENABLED = {tasks[t].evt.gid}
        /\ \A u \in Tasks : u # t => tasks[u].pc = "free"
        /\ <<tasks[t].evt.album, now>> \in fs

\* C6, as stated: once a job has exited, its work directory does not exist.
C6_WorkDirRemoved ==
    [][\A t \in Tasks :
         (/\ InJob(t) /\ tasks'[t].pc = "free"
          /\ tasks[t].work_dir # NoDir)
         => tasks[t].work_dir \notin fs']_vars

\* C9: a jm command handled for a group that is not enabled (switched off, or
\* never switched) gets the not-enabled notice and changes neither the busy
\* flags, the work directories, the pool nor the cooldown entries; the task
\* that replies only ends.
C9_NotEnabledNoJob ==
    [][\A t \in Tasks :
         /\ (/\ tasks[t].pc = "start" /\ tasks[t].evt.cmd = "jm"
             /\ tasks'[t] # tasks[t]
             /\ ~(/\ tasks[t].evt.gid \in DOMAIN GROUP_ENABLED
                  /\ GROUP_ENABLED[tasks[t].evt.gid]))
            => (/\ tasks'[t].pc = "reply" /\ tasks'[t].msg = "not_enabled"
                /\ UNCHANGED <<GROUP_BUSY, fs, PROCESS_POOL, GROUP_COOLDOWN_NEXT_TS>>)
         /\ (/\ tasks[t].pc = "reply" /\ tasks[t].msg = "not_enabled"
             /\ tasks'[t] # tasks[t])
            => (/\ tasks'[t] = Free
                /\ UNCHANGED <<GROUP_BUSY, fs, PROCESS_POOL, GROUP_COOLDOWN_NEXT_TS>>)]_vars

\* A jm command is answered with the not-enabled notice in a group that was
\* switched off.
C9_Witness ==
    \E t \in Tasks :
        /\ tasks[t].pc = "reply" /\ tasks[t].msg = "not_enabled"
        /\ tasks[t].evt.cmd = "jm"
        /\ tasks[t].evt.gid \in DOMAIN GROUP_ENABLED
        /\ GROUP_BUSY = {}

\* C10, as stated: when the conversion gave no document, the stats message
\* says "(not generated)" and the job goes on to the completion notice.
C10_CompletionWithoutPdf ==
    [][\A t \in Tasks :
         (/\ tasks[t].pc = "stats" /\ tasks[t].pdf = "none"
          /\ tasks'[t] # tasks[t])
         => (/\ tasks[t].msg = "stats:(not generated)"
             /\ tasks'[t].pc = "done_notice")]_vars

(***************************************************************************)
(* Properties of the client (SpecWS).                                      *)
(***************************************************************************)
\* C1: a response frame resolves exactly the pending call of its echo: the
\* entry of that echo is popped and its future, if not done, gets the result;
\* every other entry of the table and every other future are left as they
\* were, as is everything when no entry has that echo; a future gets a result
\* only from a response frame of its echo, and the call waiting on a resolved
\* future returns the response.
C1_ResponseResolvesItsCall ==
    /\ [][(frame'.seq # frame.seq /\ frame'.kind = "response")
          => (/\ \A x \in 1..MaxEcho :
                    x # frame'.echo
                    => (/\ (x \in _pending') = (x \in _pending)
                        /\ futures'[x] = futures[x])
              /\ frame'.echo \in _pending
                 => (/\ frame'.echo \notin _pending'
                     /\ futures'[frame'.echo] =
                          IF futures[frame'.echo] = "pending" THEN "result"
                          ELSE futures[frame'.echo])
              /\ frame'.echo \notin _pending => UNCHANGED <<_pending, futures>>
              /\ UNCHANGED calls)]_vars
    /\ [][\A x \in 1..MaxEcho :
            (futures[x] # "result" /\ futures'[x] = "result")
            => (/\ frame'.seq # frame.seq /\ frame'.kind = "response"
                /\ frame'.echo = x /\ futures[x] = "pending")]_vars
    /\ [][\A c \in Callers :
            (/\ calls[c].pc = "waiting" /\ calls'[c].pc = "done"
             /\ futures[calls[c].echo] = "result")
            => calls'[c].res = "response"]_vars

\* The response to the second of two calls has arrived: its future has the
\* result and its entry is gone, the first call is pending as before.
C1_Witness ==
    /\ frame.kind = "response" /\ frame.echo = 2
    /\ futures[2] = "result" /\ 2 \notin _pending
    /\ futures[1] = "pending" /\ 1 \in _pending
    /\ \E c, d \in Callers :
         /\ calls[c].pc = "waiting" /\ calls[c].echo = 2
         /\ calls[d].pc = "waiting" /\ calls[d].echo = 1

C8_FileAlwaysLatest ==
    [][\A t \in Tasks :
         (/\ tasks[t].pc = "start" /\ tasks[t].evt.cmd \in {"enable", "disable"}
          /\ tasks[t].evt.user \in Admins /\ tasks'[t] # tasks[t])
         => (/\ stateFile'.exists
             /\ DOMAIN stateFile'.data = {IntToStr(g) : g \in DOMAIN GROUP_ENABLED'}
             /\ \A g \in DOMAIN GROUP_ENABLED' :
                    stateFile'.data[IntToStr(g)] = GROUP_ENABLED'[g])]_vars

\* C8, amended: after an administrator's switch of group g, g is on after
\* enable and off after disable in the map, which is_group_enabled reads, and
\* the other groups are as before; the state file holds the value of every
\* group of the map when its write did not raise, and is as it was before the
\* switch when it did.  A switch by anyone else changes neither.
C8_SwitchRoundTrip ==
    [][\A t \in Tasks :
         (/\ tasks[t].pc = "start" /\ tasks[t].evt.cmd \in {"enable", "disable"}
          /\ tasks'[t] # tasks[t])
         => IF tasks[t].evt.user \in Admins
            THEN /\ tasks[t].evt.gid \in DOMAIN GROUP_ENABLED'
                 /\ GROUP_ENABLED'[tasks[t].evt.gid] = (tasks[t].evt.cmd = "enable")
                 /\ is_group_enabled(tasks[t].evt.gid)' = (tasks[t].evt.cmd = "enable")
                 /\ \A g \in Groups \ {tasks[t].evt.gid} :
                        /\ (g \in DOMAIN GROUP_ENABLED') = (g \in DOMAIN GROUP_ENABLED)
                        /\ g \in DOMAIN GROUP_ENABLED => GROUP_ENABLED'[g] = GROUP_ENABLED[g]
                 /\ \/ stateFile' = stateFile
                    \/ /\ stateFile'.exists
                       /\ DOMAIN stateFile'.data =
                              {IntToStr(g) : g \in DOMAIN GROUP_ENABLED'}
                       /\ \A g \in DOMAIN GROUP_ENABLED' :
                              stateFile'.data[IntToStr(g)] = GROUP_ENABLED'[g]
            ELSE UNCHANGED <<GROUP_ENABLED, stateFile>>]_vars

\* Group 1 was switched on and off again, group 2 on, and the file holds both.
C8_Witness ==
    /\ DOMAIN GROUP_ENABLED = {1, 2}
    /\ ~GROUP_ENABLED[1] /\ GROUP_ENABLED[2]
    /\ stateFile.exists
    /\ DOMAIN stateFile.data = {"1", "2"}
    /\ ~stateFile.data["1"] /\ stateFile.data["2"]
    /\ \E t \in Tasks : tasks[t].pc = "reply" /\ tasks[t].msg = "disabled"
                        /\ tasks[t].evt.gid = 1

(***************************************************************************)
(* Properties of the pipeline when connections are lost (SpecLive).        *)
(***************************************************************************)
\* C7: every accepted job eventually exits and the busy flag of its group is
\* cleared, whatever the outcome and also when the connection is lost in the
\* middle of the job; the loss of the connection ends no job.
C7_BusyEventuallyCleared ==
    /\ \A g \in Groups : (g \in GROUP_BUSY) ~> (g \notin GROUP_BUSY)
    /\ \A t \in Tasks : InJob(t) ~> (tasks[t].pc = "free")
    /\ [][(rf' # rf) => \A t \in Tasks : tasks'[t].pc = tasks[t].pc]_vars

\* A job is suspended in a call that the loss of the connection has failed.
C7_Witness ==
    \E t \in Tasks :
        /\ InJob(t) /\ tasks[t].fut = "lost"
        /\ tasks[t].evt.gid \in GROUP_BUSY

(***************************************************************************)
(* Properties of the order in which commands are handled (Spec).           *)
(***************************************************************************)
\* C11, as stated: a jm command received while the job of an earlier command
\* of its group is in progress gets the busy reply (the group being enabled
\* when it is handled).  It fails when the job exits between the reception
\* of the command and the start of its task.
C11_SecondAlwaysBusy ==
    [][\A t \in Tasks :
         (/\ tasks[t].pc = "start" /\ tasks[t].evt.cmd = "jm"
          /\ tasks'[t] # tasks[t]
          /\ tasks[t].rival
          /\ DictGet(GROUP_ENABLED, tasks[t].evt.gid, FALSE))
         => (tasks'[t].pc = "reply" /\ tasks'[t].msg = "busy")]_vars

\* C11, amended: the tasks of the events start in the order in which the
\* events were received; of two jm commands waiting for the same enabled,
\* idle, cooldown-clear group the one received first is therefore handled
\* first, and it is accepted; the second, handled while that job is in
\* progress and the group enabled, gets the busy reply and starts no job; at
\* no time are there two jobs of one group.
C11_FirstAcceptedSecondBusy ==
    /\ [](/\ Len(ready) = Cardinality({t \in Tasks : tasks[t].pc = "start"})
          /\ \A i \in 1..Len(ready) : tasks[ready[i].task].pc = "start"
          /\ \A i, j \in 1..Len(ready) : i # j => ready[i].task # ready[j].task)
    /\ [](\A t, u \in Tasks :
            (t # u /\ InJob(t) /\ InJob(u)) => tasks[t].evt.gid # tasks[u].evt.gid)
    /\ [][\A t \in Tasks :
            /\ (tasks[t].pc = "start" /\ tasks'[t] # tasks[t])
               => (/\ ready # <<>> /\ ready[1].task = t
                   /\ ready' = Tail(ready))
            /\ (tasks[t].pc # "start" /\ tasks'[t].pc = "start")
               => (/\ Len(ready') = Len(ready) + 1
                   /\ ready'[Len(ready')].task = t
                   /\ \A i \in 1..Len(ready) : ready'[i] = ready[i])
            /\ (/\ tasks[t].pc = "start" /\ tasks[t].evt.cmd = "jm"
                /\ tasks'[t] # tasks[t]
                /\ DictGet(GROUP_ENABLED, tasks[t].evt.gid, FALSE)
                /\ tasks[t].evt.gid \notin GROUP_BUSY
                /\ ~(now < DictGet(GROUP_COOLDOWN_NEXT_TS, tasks[t].evt.gid, 0)))
               => (tasks'[t].pc = "ack" /\ tasks[t].evt.gid \in GROUP_BUSY')
            /\ (/\ tasks[t].pc = "start" /\ tasks[t].evt.cmd = "jm"
                /\ tasks'[t] # tasks[t]
                /\ DictGet(GROUP_ENABLED, tasks[t].evt.gid, FALSE)
                /\ \E u \in Tasks : InJob(u) /\ tasks[u].evt.gid = tasks[t].evt.gid)
               => (/\ tasks'[t].pc = "reply" /\ tasks'[t].msg = "busy"
                   /\ UNCHANGED <<GROUP_BUSY, fs, PROCESS_POOL>>)]_vars

\* Two jm commands of group 1 were received one after the other; the first
\* was accepted and waits for its acknowledgement, the second is being
\* answered with the busy reply.
C11_Witness ==
    /\ tasks[1].pc = "ack" /\ tasks[1].evt.gid = 1 /\ tasks[1].fut = "wait"
    /\ tasks[2].pc = "reply" /\ tasks[2].msg = "busy" /\ tasks[2].evt.gid = 1
    /\ GROUP_BUSY = {1} /\ fs = {}

(***************************************************************************)
(* Properties of the reconnection (SpecRetry).                             *)
(***************************************************************************)
\* C12: run_forever never gives up: after every end of a connection and
\* every failed connect attempt it reaches its reconnect wait, each wait
\* lasts max(1, reconnect_interval) seconds whatever the number of attempts,
\* the wait is followed by a connect attempt and by nothing else, and connect
\* attempts occur again and again unless a connection stays up for ever.
C12_NeverGivesUp ==
    /\ [](rf \in {"connecting", "connected", "closing", "sleeping"})
    /\ [](rf = "sleeping"
          => delay = IF ob.reconnect_interval > 1 THEN ob.reconnect_interval ELSE 1)
    /\ [][/\ (rf = "sleeping" /\ rf' # rf) => rf' = "connecting"
          /\ (rf \in {"connecting", "closing"} /\ rf' # rf /\ rf' # "connected")
             => rf' = "sleeping"
          /\ (delay # 0 /\ rf' = "sleeping") => delay' = delay]_vars
    /\ (rf \in {"closing", "sleeping"}) ~> (rf = "connecting")
    /\ ([]<>(rf = "connecting") \/ <>[](rf = "connected"))

\* After a failed attempt and a lost connection in which a call was made,
\* run_forever is at its next connect attempt, having waited one second for a
\* configured interval of zero.
C12_Witness ==
    /\ rf = "connecting" /\ ws = "none"
    /\ ob.reconnect_interval = 0 /\ delay = 1
    /\ _echo_seq > 0

(***************************************************************************)
(* Properties of calls that ended (SpecWS).                                *)
(***************************************************************************)
\* C13: a call whose wait timed out ends with the timeout failure and its
\* entry is no longer in the table; a response frame with the echo of a call
\* that timed out resolves nothing: the future and the result of that call,
\* every other entry, future and call, and the connection are left as they
\* were, and the receive loop goes on.
C13_TimeoutThenLateResponse ==
    /\ [][\A c \in Callers :
            (/\ calls[c].pc = "waiting" /\ calls'[c].pc = "done"
             /\ futures[calls[c].echo] = "cancelled")
            => (calls'[c].res = "timeout" /\ calls[c].echo \notin _pending')]_vars
    /\ [](\A c \in Callers :
            (calls[c].pc = "done" /\ calls[c].res = "timeout")
            => calls[c].echo \notin _pending)
    /\ [][\A c \in Callers :
            (/\ frame'.seq # frame.seq /\ frame'.kind = "response"
             /\ frame'.echo = calls[c].echo
             /\ \/ calls[c].pc = "done" /\ calls[c].res = "timeout"
                \/ calls[c].pc = "waiting" /\ futures[calls[c].echo] = "cancelled")
            => (/\ futures' = futures
                /\ _pending' = _pending \ {calls[c].echo}
                /\ UNCHANGED <<calls, ws, rf>>
                /\ rf' = "connected" /\ ws' = "open")]_vars

\* On the first connection, the response to a call arrived after its timeout
\* and before the caller was resumed: the entry is gone, the future is
\* cancelled as before, and another call is pending.
C13_Witness ==
    /\ rf = "connected" /\ ws = "open" /\ delay = 0
    /\ frame.kind = "response"
    /\ \E c, d \in Callers :
         /\ calls[c].pc = "waiting" /\ frame.echo = calls[c].echo
         /\ futures[calls[c].echo] = "cancelled" /\ calls[c].echo \notin _pending
         /\ calls[d].pc = "waiting" /\ futures[calls[d].echo] = "pending"
         /\ calls[d].echo \in _pending

\* C14: resolving is idempotent: a future that is done (result, timeout or
\* cancellation, connection lost) is never given another outcome, neither by
\* a further response frame nor by the finally block of run_forever; the call
\* ends with the outcome its future got first, and the result of a call that
\* ended does not change; a response frame never ends the receive loop.
C14_ResolveIdempotent ==
    /\ [][\A e \in 1..MaxEcho :
            (futures[e] \in {"result", "exception", "cancelled"})
            => futures'[e] \in {futures[e], "none"}]_vars
    /\ [][\A c \in Callers :
            /\ (calls[c].pc = "waiting" /\ calls'[c].pc = "done")
               => calls'[c].res = ResultOf(futures[calls[c].echo])
            /\ (calls[c].pc = "done" /\ calls'[c] # calls[c]) => calls'[c] = Idle]_vars
    /\ [][(frame'.seq # frame.seq /\ frame'.kind = "response")
            => (rf' = rf /\ ws' = ws)]_vars

\* No frame was ever received; a call timed out while the connection was up,
\* and the finally block of run_forever has found its cancelled future in the
\* table: the caller, not yet resumed, will still get its timeout.
C14_Witness ==
    /\ frame = NoFrame /\ rf = "sleeping"
    /\ \E c \in Callers :
         /\ calls[c].pc = "waiting" /\ ~calls[c].atLoss
         /\ futures[calls[c].echo] = "cancelled"

\* The calls that are in call_api with an echo.
InCall == {c \in Callers : calls[c].pc \in {"sending", "waiting", "done"} /\ calls[c].echo # 0}

\* C15: the echo counter never decreases and is never reset, also when the
\* connection is lost; a call takes an echo above every echo taken before,
\* one that no entry of the table and no future has; two calls never have the
\* same echo; every call that is in call_api when the connection is lost has
\* an echo up to lostSeq and every call made afterwards an echo above it; a
\* response frame whose echo was taken before the connection was last lost
\* leaves the future, the entry and the record of every call made after it as
\* they were.
C15_EchoNeverReused ==
    /\ [][/\ _echo_seq' >= _echo_seq
          /\ lostSeq' \in {lostSeq, _echo_seq}
          /\ \A c \in Callers :
               (calls[c].pc = "idle" /\ calls'[c].pc = "sending")
               => /\ calls'[c].echo > _echo_seq /\ calls'[c].echo = _echo_seq'
                  /\ calls'[c].echo > lostSeq
                  /\ calls'[c].echo \notin _pending
                  /\ futures[calls'[c].echo] = "none"]_vars
    /\ [](/\ lostSeq <= _echo_seq
          /\ _pending \subseteq 1.._echo_seq
          /\ \A c \in InCall : calls[c].echo \in 1.._echo_seq
          /\ \A c, d \in InCall : c # d => calls[c].echo # calls[d].echo)
    /\ [][\A c \in InCall :
            (/\ frame'.seq # frame.seq /\ frame'.kind = "response"
             /\ frame'.echo <= lostSeq /\ calls[c].echo > lostSeq)
            => (/\ futures'[calls[c].echo] = futures[calls[c].echo]
                /\ (calls[c].echo \in _pending') = (calls[c].echo \in _pending)
                /\ calls'[c] = calls[c])]_vars

\* The connection was lost and made again; a call made on the new
\* connection was waiting when a response arrived whose echo was taken before
\* the loss: the call is still waiting, its future pending.
C15_Witness ==
    /\ rf = "connected" /\ lostSeq >= 1
    /\ frame.kind = "response" /\ frame.echo \in 1..lostSeq /\ frame.at > lostSeq
    /\ \E c \in Callers :
         /\ calls[c].pc = "waiting" /\ calls[c].echo > lostSeq
         /\ calls[c].echo <= frame.at
         /\ futures[calls[c].echo] = "pending" /\ calls[c].echo \in _pending

\* C16: a frame that is neither a response nor an event (not JSON, a JSON
\* object with none of the keys, JSON that is not an object) is logged and
\* dropped: the receive loop goes on, the connection stays open, and the
\* table, the futures and the calls are as they were.
C16_OtherFramesDiscarded ==
    [][(frame'.seq # frame.seq /\ frame'.kind \in {"nonjson", "unknown", "number", "array"})
        => (/\ rf' = "connected" /\ ws' = "open"
            /\ UNCHANGED <<_pending, futures, calls>>)]_vars

(***************************************************************************)
(* Properties of the receive loop next to the jobs (SpecLoop).             *)
(***************************************************************************)
\* C17: the receive loop is never held up by the handling of an event.
\* Whenever the connection is up, whatever the tasks are suspended in (a
\* call, the worker pool, a sleep), the loop can take the response frame of
\* every call a task is waiting for, and, while a task can be created, the
\* event frame of every group.  The step that takes an event frame creates
\* one task and runs nothing of the handler: no other task, no flag, no
\* cooldown and no work item changes.
C17_LoopNeverBlocked ==
    /\ []((ws = "open" /\ rf = "connected")
           => /\ \A t \in Tasks : tasks[t].fut = "wait" => ENABLED ReceiveResponse(t)
              /\ (\E t \in Tasks : tasks[t].pc = "free")
                 => \A evt \in JmEvents : ENABLED ReceiveEvent(evt))
    /\ [][\A t \in Tasks :
            (tasks[t].pc = "free" /\ tasks'[t].pc = "start")
            => (/\ \A u \in Tasks \ {t} : tasks'[u] = tasks[u]
                /\ Len(ready') = Len(ready) + 1 /\ ready'[Len(ready')].task = t
                /\ UNCHANGED <<GROUP_BUSY, GROUP_ENABLED, GROUP_COOLDOWN_NEXT_TS,
                               PROCESS_POOL, fs>>)]_vars

\* A job that is past its first calls is suspended in an upload whose
\* response the loop has taken, and the task of an event of another group,
\* created while the job was suspended, waits to start.
C17_Witness ==
    \E t, u \in Tasks :
       /\ tasks[t].pc = "upload" /\ tasks[t].fut = "result"
       /\ tasks[u].pc = "start" /\ tasks[u].evt.gid # tasks[t].evt.gid
       /\ tasks[t].evt.gid \in GROUP_BUSY

(***************************************************************************)
(* Who switches a group (SpecStore).                                       *)
(***************************************************************************)
\* The entry of group g in GROUP_ENABLED: "absent", "on" or "off".
Flag(d, g) == IF g \notin DOMAIN d THEN "absent" ELSE IF d[g] THEN "on" ELSE "off"

\* C18: the entry of a group in GROUP_ENABLED, and the state file, change
\* only in the step in which on_event handles the enable or the disable
\* command, the whole text, sent in that group by an administrator, and the entry becomes
\* what the command says; the same command of another user is answered with
\* the no-permission reply and changes neither the map nor the file; a text
\* that only starts with the command changes nothing either, whoever sent it.
C18_OnlyAdminSwitches ==
    /\ [][\A g \in Groups :
            (Flag(GROUP_ENABLED', g) # Flag(GROUP_ENABLED, g))
            => \E t \in Tasks :
                 /\ tasks[t].pc = "start" /\ tasks'[t].pc = "reply"
                 /\ tasks[t].evt.cmd \in {"enable", "disable"}
                 /\ tasks[t].evt.gid = g
                 /\ tasks[t].evt.user \in Admins
                 /\ Flag(GROUP_ENABLED', g) =
                        IF tasks[t].evt.cmd = "enable" THEN "on" ELSE "off"]_vars
    /\ [][(stateFile' # stateFile)
            => \E t \in Tasks :
                 /\ tasks[t].pc = "start" /\ tasks'[t].pc = "reply"
                 /\ tasks[t].evt.cmd \in {"enable", "disable"}
                 /\ tasks[t].evt.user \in Admins]_vars
    /\ [][\A t \in Tasks :
            (/\ tasks[t].pc = "start" /\ tasks'[t] # tasks[t]
             /\ tasks[t].evt.cmd \in {"enable", "disable"}
             /\ tasks[t].evt.user \notin Admins)
            => (/\ tasks'[t].pc = "reply" /\ tasks'[t].msg = "no_permission"
                /\ UNCHANGED <<GROUP_ENABLED, stateFile>>)]_vars
    /\ [][\A t \in Tasks :
            (/\ tasks[t].pc = "start" /\ tasks'[t] # tasks[t]
             /\ tasks[t].evt.cmd \in {"near_enable", "near_disable"})
            => (tasks'[t].pc = "free" /\ UNCHANGED <<GROUP_ENABLED, stateFile>>)]_vars

\* An administrator switched the group on; the disable command of another
\* user in that group is being answered with the no-permission reply, and the
\* group is on in the map and in the file.
C18_Witness ==
    \E t \in Tasks :
       /\ tasks[t].pc = "reply" /\ tasks[t].msg = "no_permission"
       /\ tasks[t].evt.cmd = "disable" /\ tasks[t].evt.user \notin Admins
       /\ Flag(GROUP_ENABLED, tasks[t].evt.gid) = "on"
       /\ stateFile.exists
       /\ IntToStr(tasks[t].evt.gid) \in DOMAIN stateFile.data
       /\ stateFile.data[IntToStr(tasks[t].evt.gid)]

(***************************************************************************)
(* What a job that failed tells the group and the administrators (SpecLive). *)
(***************************************************************************)
\* A stage of the job has failed: get_login_info, the download, the search
\* of the album directory, the delivery (the upload was answered with a
\* failure, or it raised and the fallback message failed too), or an
\* exception left handle_jm_command.
Failing(rec) ==
    \/ rec.reason \in {"self_id", "download", "locate", "send", "exception"}
    \/ rec.undelivered

\* C19: a job of which a stage failed has sent the "failed" notice to its
\* group exactly once when it exits, and exits without having sent the
\* completion notice.
C19_ExactlyOneFailNotice ==
    [][\A t \in Tasks :
         (InJob(t) /\ tasks'[t].pc = "free" /\ Failing(tasks[t]))
         => (tasks[t].notices = 1 /\ tasks[t].pc # "done_notice")]_vars

\* C20: a job of which a stage failed has sent its report to every
\* administrator when it exits, whatever became of each send; its work
\* directory is removed and the busy flag of its group cleared.
C20_EveryFailureReported ==
    [][\A t \in Tasks :
         (InJob(t) /\ tasks'[t].pc = "free" /\ Failing(tasks[t]))
         => (/\ IF NumAdmins = 0 THEN tasks[t].pc = "fail_notice"
                ELSE tasks[t].pc = "notify_sleep" /\ tasks[t].adm = NumAdmins
             /\ tasks[t].evt.gid \notin GROUP_BUSY'
             /\ tasks[t].work_dir # NoDir => tasks[t].work_dir \notin fs')]_vars

(***************************************************************************)
(* The worker pool (Spec).                                                 *)
(***************************************************************************)
\* The jobs that are in a heavy operation: the download or the conversion.
Heavy == {t \in Tasks : tasks[t].pc \in {"acquire", "transform"}}

\* C21: at most one download or conversion executes at a time, whatever the
\* number of jobs in progress: every job in a heavy operation has one work
\* item in the queue of the executor, only the item at the head of the queue
\* is executed, and the heavy operation of a job ends only when its item is
\* at the head, that is when every item submitted before it has ended.
C21_OneHeavyOperation ==
    /\ [](/\ Cardinality(Running) <= 1
          /\ Running \subseteq Heavy
          /\ Len(PROCESS_POOL) = Cardinality(Heavy)
          /\ \A t \in Heavy : \E i \in 1..Len(PROCESS_POOL) : PROCESS_POOL[i] = t)
    /\ [][\A t \in Tasks :
            (t \in Heavy /\ tasks'[t] # tasks[t])
            => (PROCESS_POOL # <<>> /\ Head(PROCESS_POOL) = t)]_vars

\* Two jobs of two busy groups are in a heavy operation: the download of one
\* is executed, and the conversion of the other, submitted after it, waits.
C21_Witness ==
    \E t, u \in Tasks :
       /\ t # u /\ tasks[t].evt.gid # tasks[u].evt.gid
       /\ {tasks[t].evt.gid, tasks[u].evt.gid} \subseteq GROUP_BUSY
       /\ tasks[t].pc = "acquire" /\ tasks[u].pc = "transform"
       /\ PROCESS_POOL = <<t, u>>

(***************************************************************************)
(* The credential of the opening handshake (SpecAuth).                     *)
(***************************************************************************)
\* C22: the handshake carries the credential as configured.  With a token
\* and use_query_token false it has the header "Authorization: Bearer
\* <token>" and no access_token parameter; with a token and use_query_token
\* true it has the access_token parameter and no header; with no token it
\* has neither.
C22_CredentialAsConfigured ==
    (dial.attempted
        => LET token == strip(ob.access_token)
               sent == Handshake(dial.params)
           IN  IF token = <<>>
               THEN sent.access_token = <<>> /\ sent.Authorization = <<>>
               ELSE IF ob.use_query_token
               THEN sent.access_token = token /\ sent.Authorization = <<>>
               ELSE /\ sent.Authorization = <<"Bearer", " ">> \o token
                    /\ sent.access_token = <<>>)

(***************************************************************************)
(* The work directories of the jobs (Spec).                                *)
(***************************************************************************)
\* C23: two jobs that are in progress never have the same work directory,
\* so that the directory of a job in progress exists until that job removes
\* it.
C23_WorkDirUnique ==
    \A t, u \in Tasks :
       (/\ t # u /\ InJob(t) /\ InJob(u)
        /\ tasks[t].work_dir # NoDir /\ tasks[u].work_dir # NoDir)
       => tasks[t].work_dir # tasks[u].work_dir

(***************************************************************************)
(* The deliver stage (SpecLive).                                           *)
(***************************************************************************)
\* C24: with a document the upload is attempted first, and the fallback
\* message only after it; when the upload is over, either it has succeeded
\* (ok is set, and the stats message follows without a fallback) or the
\* fallback message is attempted.
C24_FallbackOnEveryUploadFailure ==
    [][\A t \in Tasks :
         /\ (tasks[t].pc = "transform" /\ tasks'[t].pc # "transform"
             /\ tasks'[t].pdf = "file")
            => tasks'[t].pc = "upload"
         /\ (tasks[t].pc # "fallback" /\ tasks'[t].pc = "fallback")
            => tasks[t].pc = "upload"
         /\ (tasks[t].pc = "upload" /\ tasks'[t].pc # "upload")
            => \/ tasks'[t].pc = "fallback"
               \/ tasks'[t].pc = "stats" /\ tasks'[t].ok]_vars

(***************************************************************************)
(* The checks of a jm command (SpecSwitch).                                *)
(***************************************************************************)
\* The reply the checks give in the order switch, cooldown, busy flag, from
\* the dictionaries themselves; "ack" when none fails.
FirstFailedCheck(g) ==
    IF ~(g \in DOMAIN GROUP_ENABLED /\ GROUP_ENABLED[g]) THEN "not_enabled"
    ELSE IF /\ cfg.per_group_cooldown_enabled /\ cfg.per_group_cooldown_seconds > 0
            /\ g \in DOMAIN GROUP_COOLDOWN_NEXT_TS /\ now < GROUP_COOLDOWN_NEXT_TS[g]
         THEN "cooldown"
    ELSE IF g \in GROUP_BUSY THEN "busy"
    ELSE "ack"

\* C25: a jm command is answered by the first check that fails, in the order
\* switch, cooldown, busy flag; the rejected command sends that one reply and
\* returns, and neither of its two steps changes the switch, the busy flags
\* or the cooldown entries, nor starts anything of a job.
C25_ChecksInOrder ==
    [][\A t \in Tasks :
         /\ (/\ tasks[t].pc = "start" /\ tasks[t].evt.cmd = "jm"
             /\ tasks'[t] # tasks[t])
            => LET v == FirstFailedCheck(tasks[t].evt.gid)
               IN  /\ tasks'[t].msg = v
                   /\ v # "ack"
                      => /\ tasks'[t].pc = "reply"
                         /\ UNCHANGED <<GROUP_ENABLED, stateFile, GROUP_BUSY,
                                        GROUP_COOLDOWN_NEXT_TS, fs, PROCESS_POOL>>
         /\ (/\ tasks[t].pc = "reply" /\ tasks[t].evt.cmd = "jm"
             /\ tasks'[t] # tasks[t])
            => /\ tasks'[t] = Free
               /\ UNCHANGED <<GROUP_ENABLED, stateFile, GROUP_BUSY,
                              GROUP_COOLDOWN_NEXT_TS, fs, PROCESS_POOL>>]_vars

\* A command for a group that is switched off while its job runs: the checks
\* of the switch and of the busy flag both fail, and the reply is that of the
\* switch.
C25_Witness ==
    \E t \in Tasks :
       /\ tasks[t].pc = "reply" /\ tasks[t].evt.cmd = "jm"
       /\ tasks[t].msg = "not_enabled"
       /\ tasks[t].evt.gid \in GROUP_BUSY
       /\ tasks[t].evt.gid \in DOMAIN GROUP_ENABLED
       /\ ~GROUP_ENABLED[tasks[t].evt.gid]

(***************************************************************************)
(* When the cooldown entry is written (Spec).                              *)
(***************************************************************************)
\* The entry of group g in GROUP_COOLDOWN_NEXT_TS, -1 when there is none.
Entry(d, g) == IF g \in DOMAIN d THEN d[g] ELSE -1

\* The entry of a group changes only in the step in which a job of that
\* group exits, and not in the step that accepts a command.
EntryChangesAtExitOnly ==
    /\ \A g \in Groups :
         (Entry(GROUP_COOLDOWN_NEXT_TS', g) # Entry(GROUP_COOLDOWN_NEXT_TS, g))
         => \E t \in Tasks : /\ InJob(t) /\ tasks[t].evt.gid = g
                             /\ tasks'[t].pc = "free"
    /\ \A t \in Tasks :
         (tasks[t].pc = "start" /\ tasks'[t].pc = "ack")
         => UNCHANGED GROUP_COOLDOWN_NEXT_TS

\* C26, as stated: the entry of a group is written only when a job of the
\* group exits, and at every exit it becomes the time of the exit plus
\* per_group_cooldown_seconds.  It fails when the cooldown is switched off or
\* its seconds are not positive: no exit writes the entry then.
C26_WrittenAtEveryFinish ==
    [][/\ EntryChangesAtExitOnly
       /\ \A t \in Tasks :
            (InJob(t) /\ tasks'[t].pc = "free")
            => Entry(GROUP_COOLDOWN_NEXT_TS', tasks[t].evt.gid)
                  = now + cfg.per_group_cooldown_seconds]_vars

\* C26, amended: the entry of a group is written only when a job of the
\* group exits; with the cooldown switched on and positive seconds every
\* exit, whatever the outcome of the job, sets it to the time of the exit
\* plus the seconds, and with any other configuration no exit writes it.  It
\* is not written at acceptance, and no step taken while the job is in
\* progress changes it.
C26_WrittenAtFinishWhenConfigured ==
    [][/\ EntryChangesAtExitOnly
       /\ \A t \in Tasks :
            /\ (InJob(t) /\ tasks'[t].pc = "free")
               => IF cfg.per_group_cooldown_enabled /\ cfg.per_group_cooldown_seconds > 0
                  THEN Entry(GROUP_COOLDOWN_NEXT_TS', tasks[t].evt.gid)
                          = now + cfg.per_group_cooldown_seconds
                  ELSE UNCHANGED GROUP_COOLDOWN_NEXT_TS
            /\ (InJob(t) /\ InJob(t)')
               => Entry(GROUP_COOLDOWN_NEXT_TS', tasks[t].evt.gid)
                     = Entry(GROUP_COOLDOWN_NEXT_TS, tasks[t].evt.gid)]_vars

\* A job of the group exited and armed the cooldown; the next job of the
\* group, accepted when the cooldown was over, has failed and is sending its
\* notice, and the entry is still the one the first job wrote.
C26_Witness ==
    \E t \in Tasks :
       /\ tasks[t].pc = "fail_notice"
       /\ cfg.per_group_cooldown_enabled /\ cfg.per_group_cooldown_seconds > 0
       /\ tasks[t].evt.gid \in DOMAIN GROUP_COOLDOWN_NEXT_TS
       /\ tasks[t].evt.gid \in DOMAIN jobDoneAt
       /\ GROUP_COOLDOWN_NEXT_TS[tasks[t].evt.gid]
             = jobDoneAt[tasks[t].evt.gid] + cfg.per_group_cooldown_seconds
       /\ GROUP_COOLDOWN_NEXT_TS[tasks[t].evt.gid] <= now

(***************************************************************************)
(* C27: a message whose text starts with the enable or the disable command *)
(* and goes on is dropped without a trace, whoever sent it: on_event goes  *)
(* from its start to its return without a call (no reply is sent), the     *)
(* enabled flag and the state file stay as they are, and neither the help  *)
(* command nor the jm command the text may contain is run: no reply of     *)
(* theirs, no busy flag, no cooldown entry, no work directory, no          *)
(* submission to the pool.                                                 *)
(***************************************************************************)
NearMatch(t) == tasks[t].evt.cmd \in {"near_enable", "near_disable"}

C27_NearMatchIgnored ==
    /\ [](\A t \in Tasks : NearMatch(t) => tasks[t].pc \in {"start", "free"})
    /\ [][\A t \in Tasks :
            (NearMatch(t) /\ tasks[t].pc = "start" /\ tasks'[t] # tasks[t])
            => /\ tasks'[t].pc = "free" /\ tasks'[t].fut = "none"
               /\ UNCHANGED <<GROUP_ENABLED, stateFile, GROUP_BUSY,
                              GROUP_COOLDOWN_NEXT_TS, fs, PROCESS_POOL, jobDoneAt>>]_vars

\* An administrator's "disable" followed by a jm command was dropped in a
\* group that is enabled and idle: the group is still enabled, idle and
\* without a work directory.
C27_Witness ==
    \E t \in Tasks :
       /\ tasks[t].pc = "free" /\ tasks[t].evt.cmd = "near_disable"
       /\ tasks[t].evt.rest = "jm" /\ tasks[t].evt.user \in Admins
       /\ is_group_enabled(tasks[t].evt.gid)
       /\ tasks[t].evt.gid \notin GROUP_BUSY
       /\ fs = {} /\ PROCESS_POOL = <<>>

(***************************************************************************)
(* C28: the help command is answered with the help text in an enabled      *)
(* group and with the "not enabled" notice, never the help text, in a      *)
(* group that is not enabled.  In both cases on_event sends that one reply *)
(* and returns: no job is started (no busy flag, no work directory, no     *)
(* submission to the pool) and the enabled flags, the state file and the   *)
(* cooldown entries stay as they are.                                      *)
(***************************************************************************)
C28_HelpOnlyWhenEnabled ==
    /\ [](\A t \in Tasks :
            tasks[t].evt.cmd = "help" => tasks[t].pc \in {"start", "reply", "free"})
    /\ [][\A t \in Tasks :
            (tasks[t].evt.cmd = "help" /\ tasks'[t] # tasks[t])
            => /\ tasks[t].pc = "start" =>
                    /\ tasks'[t].pc = "reply"
                    /\ tasks'[t].msg = IF is_group_enabled(tasks[t].evt.gid)
                                       THEN "help" ELSE "not_enabled"
               /\ tasks[t].pc = "reply" => tasks'[t].pc = "free"
               /\ UNCHANGED <<GROUP_ENABLED, stateFile, GROUP_BUSY,
                              GROUP_COOLDOWN_NEXT_TS, fs, PROCESS_POOL, jobDoneAt>>]_vars

\* The help command is being answered in two groups at once: with the help
\* text in the enabled one, with the notice in the other one.
C28_Witness ==
    \E t, u \in Tasks :
       /\ tasks[t].pc = "reply" /\ tasks[t].evt.cmd = "help"
       /\ tasks[t].msg = "help" /\ is_group_enabled(tasks[t].evt.gid)
       /\ tasks[u].pc = "reply" /\ tasks[u].evt.cmd = "help"
       /\ tasks[u].msg = "not_enabled" /\ ~is_group_enabled(tasks[u].evt.gid)
       /\ GROUP_BUSY = {} /\ fs = {}

(***************************************************************************)
(* C29: when get_login_info raises (a timeout raises too) or gives no      *)
(* usable id, the job is over before the download: handle_jm_command makes *)
(* no work directory and submits nothing to the pool, sends "failed" to    *)
(* the group once, then the report to the administrators, and returns;     *)
(* the finally block of on_event clears the busy flag of the group and     *)
(* arms its cooldown by the rule of every finished job (the entry becomes  *)
(* the time of the exit plus the seconds when the cooldown is configured). *)
(***************************************************************************)
NoSelfId(t) == InJob(t) /\ tasks[t].reason = "self_id"

InPool(t) == \E i \in 1..Len(PROCESS_POOL) : PROCESS_POOL[i] = t

C29_SelfIdFailureAborts ==
    /\ [](\A t \in Tasks :
            NoSelfId(t) => /\ tasks[t].pc \in {"fail_notice", "notify_send", "notify_sleep"}
                           /\ tasks[t].work_dir = NoDir /\ tasks[t].pdf = "none"
                           /\ ~InPool(t)
                           /\ tasks[t].notices = 1
                           /\ tasks[t].evt.gid \in GROUP_BUSY)
    /\ [][\A t \in Tasks :
            /\ (tasks[t].pc = "login" /\ tasks'[t] # tasks[t])
               => \/ /\ NoSelfId(t)' /\ tasks'[t].pc = "fail_notice"
                     /\ tasks'[t].msg = "fail"
                     /\ UNCHANGED <<fs, PROCESS_POOL, GROUP_BUSY, GROUP_COOLDOWN_NEXT_TS>>
                  \/ /\ ~NoSelfId(t)' /\ tasks'[t].work_dir \in fs'
                     /\ CallOutcomes(tasks[t].fut) # {"raise"}
            /\ (NoSelfId(t) /\ tasks'[t] # tasks[t])
               => /\ UNCHANGED <<fs, PROCESS_POOL>>
                  /\ tasks[t].pc = "fail_notice"
                       => tasks'[t].pc = "notify_send" /\ tasks'[t].msg = "report"
                  /\ tasks[t].pc = "notify_send" => tasks'[t].pc = "notify_sleep"
                  /\ tasks'[t].pc # "free"
                       => /\ NoSelfId(t)'
                          /\ UNCHANGED <<GROUP_BUSY, GROUP_COOLDOWN_NEXT_TS>>
                  /\ tasks'[t].pc = "free"
                       => /\ tasks[t].pc = "notify_sleep" /\ tasks[t].adm = NumAdmins
                          /\ tasks[t].evt.gid \notin GROUP_BUSY'
                          /\ IF CooldownConfigured
                             THEN Entry(GROUP_COOLDOWN_NEXT_TS', tasks[t].evt.gid)
                                     = now + cfg.per_group_cooldown_seconds
                             ELSE UNCHANGED GROUP_COOLDOWN_NEXT_TS]_vars

\* With the cooldown configured, a job whose get_login_info failed has sent
\* "failed" and the report to the last administrator: there is no work
\* directory, the pool is empty, and the group is busy until the job exits.
C29_Witness ==
    \E t \in Tasks :
       /\ NoSelfId(t) /\ tasks[t].pc = "notify_sleep" /\ tasks[t].adm = NumAdmins
       /\ CooldownConfigured
       /\ fs = {} /\ PROCESS_POOL = <<>>
       /\ tasks[t].evt.gid \in GROUP_BUSY
       /\ Entry(GROUP_COOLDOWN_NEXT_TS, tasks[t].evt.gid) = -1

(***************************************************************************)
(* C30: once the album directory is located and the conversion is over,    *)
(* the job sends the stats message whatever became of the delivery: after  *)
(* the upload (answered ok or not), after the fallback send that follows   *)
(* an upload that raised, or at once when there is no PDF to deliver.  The *)
(* completion notice and the "failed" notice of the deliver stage are sent *)
(* only after the stats message.                                           *)
(***************************************************************************)
Delivering(t) == tasks[t].pc \in {"upload", "fallback"}

C30_StatsAfterDelivery ==
    [][\A t \in Tasks :
         (tasks'[t].pc # tasks[t].pc) =>
            /\ tasks[t].pc = "transform"
                 => /\ tasks'[t].pc = IF tasks'[t].pdf = "file" THEN "upload" ELSE "stats"
            /\ tasks[t].pc = "upload" => tasks'[t].pc \in {"fallback", "stats"}
            /\ tasks[t].pc = "fallback" => tasks'[t].pc = "stats"
            /\ tasks'[t].pc = "stats"
                 => /\ tasks[t].pc = "transform" \/ Delivering(t)
                    /\ tasks'[t].msg = StatsMessage(tasks'[t].pdf)
                    /\ tasks'[t].fut \in {"wait", "notconn"}
            /\ tasks[t].pc = "stats"
                 => tasks'[t].pc = IF tasks[t].ok THEN "done_notice" ELSE "fail_notice"
            /\ tasks'[t].pc = "done_notice" => tasks[t].pc = "stats"
            /\ tasks'[t].pc = "fail_notice"
                 => tasks[t].pc \in {"login", "acquire", "stats"}]_vars

\* Two jobs are sending their stats message: one whose conversion gave no
\* PDF, so that nothing was delivered, and one whose upload was answered
\* with a failure.
C30_Witness ==
    \E t, u \in Tasks :
       /\ tasks[t].pc = "stats" /\ tasks[t].pdf = "none"
       /\ tasks[t].msg = "stats:(not generated)" /\ ~tasks[t].ok
       /\ tasks[u].pc = "stats" /\ tasks[u].pdf = "file" /\ ~tasks[u].ok
       /\ tasks[u].msg = "stats:pdf"

(***************************************************************************)
(* C31: an administrator's enable or disable whose write of the state file *)
(* raises goes on as one whose write succeeded.  The file stays as it was, *)
(* the flag in memory has the new value and is_group_enabled gives it, the *)
(* state lock is free again (it is free in every state, so that no later   *)
(* save waits for it), the confirmation is sent, and on_event returns      *)
(* after it without an exception.                                          *)
(***************************************************************************)
SwitchOf(t) ==
    /\ tasks[t].evt.cmd \in {"enable", "disable"}
    /\ _is_admin(tasks[t].evt.user)

C31_FailedSaveOnlyLogged ==
    /\ [](STATE_LOCK = "unlocked")
    /\ [][\A t \in Tasks :
            (SwitchOf(t) /\ tasks'[t].pc # tasks[t].pc) =>
               LET gid == tasks[t].evt.gid
                   on == tasks[t].evt.cmd = "enable"
               IN  /\ tasks[t].pc = "start" =>
                        /\ Flag(GROUP_ENABLED', gid) = IF on THEN "on" ELSE "off"
                        /\ is_group_enabled(gid)' = on
                        /\ \/ stateFile' = stateFile
                           \/ stateFile' = [exists |-> TRUE,
                                            data |-> DumpGroupState(GROUP_ENABLED')]
                        /\ tasks'[t].pc = "reply"
                        /\ tasks'[t].msg = IF on THEN "enabled" ELSE "disabled"
                        /\ tasks'[t].fut \in {"wait", "notconn"}
                        /\ ~tasks'[t].exc
                   /\ tasks[t].pc = "reply" =>
                        /\ tasks'[t].pc = "free"
                        /\ UNCHANGED <<GROUP_ENABLED, stateFile>>]_vars

\* The write of an administrator's enable raised: the confirmation is being
\* sent, the group is enabled in memory, the file (written by an earlier
\* switch of the other group) does not know the group, and the lock is free.
C31_Witness ==
    \E t \in Tasks :
       /\ SwitchOf(t) /\ tasks[t].pc = "reply" /\ tasks[t].msg = "enabled"
       /\ is_group_enabled(tasks[t].evt.gid)
       /\ stateFile.exists
       /\ IntToStr(tasks[t].evt.gid) \notin DOMAIN stateFile.data
       /\ STATE_LOCK = "unlocked"

(***************************************************************************)
(* C32: _find_album_dir_in_work returns the subdirectory of the work       *)
(* directory named exactly as the album id when there is one; else a       *)
(* subdirectory whose name contains the album id when there is one; else,  *)
(* of the subdirectories that are there, one with the greatest number of   *)
(* images (counted as count_images counts them); and None only when the    *)
(* work directory has no subdirectory.                                     *)
(***************************************************************************)
Subdirs(work) == { work[i] : i \in { j \in 1..Len(work) : work[j].dir } }

C32_LocateOrder ==
    located.done =>
       LET dirs == Subdirs(located.work)
           id == located.album_id
           r == located.album_dir
       IN  IF \E e \in dirs : e.name = id THEN r = id
           ELSE IF \E e \in dirs : Contains(e.name, id)
           THEN \E e \in dirs : e.name = r /\ Contains(r, id)
           ELSE IF dirs # {}
           THEN \E e \in dirs :
                   /\ e.name = r
                   /\ \A o \in dirs : count_images(o) <= count_images(e)
           ELSE r = None

\* The entry named as the album is a file; neither of the two
\* subdirectories has the album id in its name, the one listed last has more
\* images, and it is the one returned.
C32_Witness ==
    /\ located.done
    /\ Len(located.work) = 3
    /\ located.work[1].name = located.album_id /\ ~located.work[1].dir
    /\ \A i \in 2..3 : located.work[i].dir /\ ~Contains(located.work[i].name, located.album_id)
    /\ count_images(located.work[2]) < count_images(located.work[3])
    /\ located.album_dir = located.work[3].name

(***************************************************************************)
(* C33: an event whose post_type is not "message", a message that is not a *)
(* group message, and a group message without a group_id are dropped       *)
(* whatever their text is: on_event returns without a call (no reply), the *)
(* enabled flags, the state file, the busy flags and the cooldown entries  *)
(* stay as they are, and no job starts (no work directory, no submission). *)
(***************************************************************************)
Filtered(t) == tasks[t].evt.cmd \in {"notice", "private", "nogroup"}

C33_OnlyGroupMessages ==
    /\ [](\A t \in Tasks : Filtered(t) => tasks[t].pc \in {"start", "free"})
    /\ [][\A t \in Tasks :
            (Filtered(t) /\ tasks[t].pc = "start" /\ tasks'[t] # tasks[t])
            => /\ tasks'[t].pc = "free" /\ tasks'[t].fut = "none"
               /\ UNCHANGED <<GROUP_ENABLED, stateFile, GROUP_BUSY,
                              GROUP_COOLDOWN_NEXT_TS, fs, PROCESS_POOL, jobDoneAt>>]_vars

\* A private message with a jm command, sent by an administrator and
\* carrying the id of a group that is enabled and idle, was dropped: the
\* group is still idle and there is no work directory.
C33_Witness ==
    \E t \in Tasks :
       /\ tasks[t].pc = "free" /\ tasks[t].evt.cmd = "private"
       /\ tasks[t].evt.rest = "jm"
       /\ is_group_enabled(tasks[t].evt.gid)
       /\ GROUP_BUSY = {} /\ fs = {} /\ PROCESS_POOL = <<>>

(***************************************************************************)
(* C34: the cooldown of a busy group is over.  The job that made the group *)
(* busy was accepted when the cooldown allowed it, and the entry of the    *)
(* group is written again only when that job exits, in the step that       *)
(* clears the busy flag.  So a jm command handled for an enabled group     *)
(* that is busy gets the busy reply, never the cooldown reply.             *)
(***************************************************************************)
C34_BusyMeansCooldownOver ==
    /\ [](\A g \in GROUP_BUSY : _check_group_cooldown(g))
    /\ [][\A t \in Tasks :
            (/\ tasks[t].pc = "start" /\ tasks[t].evt.cmd = "jm"
             /\ tasks'[t] # tasks[t]
             /\ is_group_enabled(tasks[t].evt.gid)
             /\ tasks[t].evt.gid \in GROUP_BUSY)
            => /\ tasks'[t].pc = "reply" /\ tasks'[t].msg = "busy"
               /\ UNCHANGED <<GROUP_BUSY, GROUP_COOLDOWN_NEXT_TS>>]_vars

\* A job of the group exited and armed the cooldown; when it was over the
\* next job was accepted, and a third command is being answered with the
\* busy reply while the entry of the first job is still there.
C34_Witness ==
    \E t, u \in Tasks :
       /\ CooldownConfigured
       /\ InJob(t) /\ tasks[t].evt.gid \in GROUP_BUSY
       /\ Entry(GROUP_COOLDOWN_NEXT_TS, tasks[t].evt.gid) > 0
       /\ Entry(GROUP_COOLDOWN_NEXT_TS, tasks[t].evt.gid) <= now
       /\ tasks[u].pc = "reply" /\ tasks[u].msg = "busy"
       /\ tasks[u].evt.gid = tasks[t].evt.gid

(***************************************************************************)
(* C35, as stated: the completion notice is sent only by a job whose       *)
(* document reached the group, by the upload or by the fallback message; a *)
(* job whose upload raised and whose fallback send failed as well goes on  *)
(* from the stats message to the "failed" notice and the report.  It       *)
(* fails: "ok = True" follows the fallback send whatever became of it.     *)
(***************************************************************************)
C35_CompletionOnlyIfDelivered ==
    [][\A t \in Tasks :
         (tasks[t].pc = "stats" /\ tasks'[t].pc # "stats")
         => /\ tasks[t].undelivered => tasks'[t].pc = "fail_notice"
            /\ tasks'[t].pc = "done_notice"
                 => tasks[t].pdf = "file" /\ ~tasks[t].undelivered]_vars

(***************************************************************************)
(* C36, as stated: every echo in the table of pending calls is the echo of *)
(* a call that is still suspended in call_api, in the send or in wait_for; *)
(* the echo of a call that has returned or raised is not in the table.  It *)
(* fails: "await ws.send(payload)" is not inside the try block, and a send *)
(* that raises leaves the entry in the table.                              *)
(***************************************************************************)
C36_NoOrphanEntry ==
    \A e \in _pending :
       \E c \in Callers : calls[c].echo = e /\ calls[c].pc \in {"sending", "waiting"}

(***************************************************************************)
(* C37: while run_forever is connecting or in its reconnect wait, _ws is   *)
(* None, and call_api raises "WebSocket not connected" at once: the call   *)
(* is over without having been suspended in a send, no entry is added to   *)
(* the table, no future is made, the echo counter stays as it is, and the  *)
(* connection state is untouched.                                          *)
(***************************************************************************)
C37_NotConnectedFailsAtOnce ==
    /\ [](rf \in {"connecting", "sleeping"} => ws = "none")
    /\ [][\A c \in Callers :
            (calls[c].pc = "idle" /\ calls'[c] # calls[c] /\ ws = "none")
            => /\ calls'[c].pc = "done" /\ calls'[c].res = "not connected"
               /\ calls'[c].echo = 0
               /\ UNCHANGED <<_pending, futures, _echo_seq, frame, connVars>>]_vars

\* In the reconnect wait that follows a lost connection, on which a call
\* had taken an echo, a call has failed with "not connected": the table is
\* empty and the counter is where the earlier call left it.
C37_Witness ==
    \E c \in Callers :
       /\ rf = "sleeping" /\ ws = "none"
       /\ calls[c].pc = "done" /\ calls[c].res = "not connected"
       /\ _echo_seq = 1 /\ lostSeq = 1 /\ _pending = {}

(***************************************************************************)
(* C38: the groups do not touch each other.  A jm command for a group that *)
(* is enabled, idle and out of its cooldown is accepted and acknowledged   *)
(* in the step that handles it, whatever the busy flags, the cooldown      *)
(* entries and the jobs of the other groups are and whoever occupies the   *)
(* pool; and a step of a task, the exit of a job included, changes the     *)
(* enabled flag, the busy flag and the cooldown entry of no group but the  *)
(* one of its event.                                                       *)
(***************************************************************************)
C38_GroupsIndependent ==
    /\ [][\A t \in Tasks :
            LET g == tasks[t].evt.gid
            IN  (/\ tasks[t].pc = "start" /\ tasks[t].evt.cmd = "jm"
                 /\ tasks'[t] # tasks[t]
                 /\ Flag(GROUP_ENABLED, g) = "on"
                 /\ g \notin GROUP_BUSY
                 /\ ~CooldownConfigured \/ Entry(GROUP_COOLDOWN_NEXT_TS, g) <= now)
                => /\ tasks'[t].pc = "ack" /\ tasks'[t].msg = "ack"
                   /\ tasks'[t].fut \in {"wait", "notconn"}
                   /\ g \in GROUP_BUSY']_vars
    /\ [][\A t \in Tasks :
            (tasks[t].pc # "free" /\ tasks'[t] # tasks[t])
            => \A g \in Groups \ {tasks[t].evt.gid} :
                  /\ (g \in GROUP_BUSY') = (g \in GROUP_BUSY)
                  /\ Entry(GROUP_COOLDOWN_NEXT_TS', g) = Entry(GROUP_COOLDOWN_NEXT_TS, g)
                  /\ Flag(GROUP_ENABLED', g) = Flag(GROUP_ENABLED, g)]_vars

\* The job of one group has its download running in the pool, a job of that
\* group exited before and armed the cooldown; the command of another group
\* has been accepted and its acknowledgement is being sent.
C38_Witness ==
    \E t, u \in Tasks :
       /\ tasks[t].pc = "acquire" /\ t \in Running
       /\ Entry(GROUP_COOLDOWN_NEXT_TS, tasks[t].evt.gid) > 0
       /\ tasks[u].pc = "ack" /\ tasks[u].evt.gid # tasks[t].evt.gid
       /\ GROUP_BUSY = {tasks[t].evt.gid, tasks[u].evt.gid}

(***************************************************************************)
(* C39: when no write of the state file fails, the file holds the enabled  *)
(* map as it is in memory, in every state and so when the switches of      *)
(* several groups that are handled at the same time have all been saved:   *)
(* every group of the map is in the file with its latest value and the     *)
(* file knows no other group.  No handler is suspended with the state lock *)
(* held: a save takes the lock, writes the whole map and releases the lock *)
(* in one step, so that the saves follow each other.                       *)
(***************************************************************************)
C39_FileEqualsMap ==
    /\ STATE_LOCK = "unlocked"
    /\ IF DOMAIN GROUP_ENABLED = {}
       THEN ~stateFile.exists
       ELSE /\ stateFile.exists
            /\ DOMAIN stateFile.data = {IntToStr(g) : g \in DOMAIN GROUP_ENABLED}
            /\ \A g \in DOMAIN GROUP_ENABLED :
                   stateFile.data[IntToStr(g)] = GROUP_ENABLED[g]

\* The switches of two groups are being confirmed at the same time, one on
\* and one off, and the file holds both.
C39_Witness ==
    \E t, u \in Tasks :
       /\ tasks[t].pc = "reply" /\ tasks[t].msg = "enabled"
       /\ tasks[u].pc = "reply" /\ tasks[u].msg = "disabled"
       /\ tasks[t].evt.gid # tasks[u].evt.gid
       /\ stateFile.exists
       /\ DOMAIN stateFile.data = {IntToStr(tasks[t].evt.gid), IntToStr(tasks[u].evt.gid)}
       /\ stateFile.data[IntToStr(tasks[t].evt.gid)]
       /\ ~stateFile.data[IntToStr(tasks[u].evt.gid)]

=============================================================================
